---- MODULE Spec2Model ----
(***************************************************************************)
(* A model of the command interpretation and execution pipeline of the     *)
(* virtual assistant: CommandProcessor / CommandWorker                     *)
(* (src/src/command_processor.py), TaskHandler (src/src/task_handlers.py)  *)
(* and ConfigManager.get / set (src/src/config_manager.py), with the shell  *)
(* around them: TextCommandDialog (src/src/text_module.py), the tray icon's *)
(* _on_text_command (src/src/tray_icon.py) and VoiceCommandHandler         *)
(* (src/src/voice_module.py).                                              *)
(*                                                                         *)
(* Text.  A Python str is modelled as a sequence of atoms.  An atom is a   *)
(* whitespace character (" ", "\t" or "\n"), a quote character ("\"" or    *)
(* "'") or a word: a maximal run of other characters, kept whole.  The     *)
(* inputs never put two words next to each other, so a sequence of atoms   *)
(* stands for exactly one str and a keyword of a regular expression        *)
(* matches an atom exactly when it equals it.  A line break is the         *)
(* whitespace atom "\n", which `.` of a regular expression does not match. *)
(***************************************************************************)
EXTENDS Integers, Sequences, FiniteSets, TLC

\* ------------------------------------------------------------------ state

VARIABLES
    config,          \* ConfigManager._config
    fs,              \* the paths that exist on disk
    procs,           \* the names of the running processes, in enumeration order
    spawned,         \* the subprocesses started so far (program, argument)
    killed,          \* the process names terminated so far, in order
    workers,         \* the CommandWorker objects created so far, by number
    active_workers,  \* CommandProcessor.active_workers
    events,          \* the main thread's event queue (queued signals)
    emitted,         \* the command_completed / command_failed emissions, in order
    subs,            \* one record per process_command call, in call order
    pc,              \* the main thread: "idle" (in the event loop), "cleanup"
                     \* (inside cleanup()) or "aborted" (the process died)
    todo,            \* inside cleanup(): the rest of the copy active_workers[:]
    inputs,          \* the surroundings of this run: the texts the callers may
                     \* submit (by name), whether external operations may raise, the
                     \* disk at the start, the number of submissions still
                     \* to come, the processes whose terminate() raises
                     \* NoSuchProcess or AccessDenied, the direct call of
                     \* execute_command to be made (if any), and the thread the
                     \* callers of process_command run in ("main" or "thread")
    dialog,          \* the tray icon's TextCommandDialog (text_dialog)
    voice,           \* the tray icon's VoiceCommandHandler and its threads
    answer           \* the last call of ConfigManager.set / get and its answer

vars == << config, fs, procs, spawned, killed, workers, active_workers,
           events, emitted, subs, pc, todo, inputs, dialog, voice, answer >>

\* The variables of the shell around the command processor; the actions of
\* the processor and of its workers do not touch them.
shell == << dialog, voice, answer >>

\* The variables of the command processor, its workers and their world.
core == << config, fs, procs, spawned, killed, workers, active_workers,
           events, emitted, subs, pc, todo, inputs >>

\* ------------------------------------------------------------------ text

\* str.isspace() on one atom.
IsSpace(a) == a \in {" ", "\t", "\n"}

\* str.lower() on one atom: the words of the inputs that hold capitals.
LowerAtom(a) ==
    CASE a = "OPEN"      -> "open"
      [] a = "Time"      -> "time"
      [] a = "SHUTDOWN"  -> "shutdown"
      [] a = "/tmp/X"    -> "/tmp/x"
      [] a = "Firefox"   -> "firefox"
      [] a = "Terminal"  -> "terminal"
      [] a = "HTTP://Example.com" -> "http://example.com"
      [] OTHER           -> a

\* str.lower()
Lower(s) == [i \in 1..Len(s) |-> LowerAtom(s[i])]

\* Number of leading atoms of s that satisfy the character class.
RECURSIVE LeadingSpaces(_)
LeadingSpaces(s) ==
    IF s = <<>> \/ ~IsSpace(Head(s)) THEN 0 ELSE 1 + LeadingSpaces(Tail(s))

RECURSIVE TrailingSpaces(_)
TrailingSpaces(s) ==
    IF s = <<>> \/ ~IsSpace(s[Len(s)]) THEN 0
    ELSE 1 + TrailingSpaces(SubSeq(s, 1, Len(s) - 1))

\* str.strip()
Strip(s) ==
    IF LeadingSpaces(s) = Len(s) THEN <<>>
    ELSE SubSeq(s, LeadingSpaces(s) + 1, Len(s) - TrailingSpaces(s))

IsQuote(a) == a \in {"\"", "'"}

RECURSIVE LeadingQuotes(_)
LeadingQuotes(s) ==
    IF s = <<>> \/ ~IsQuote(Head(s)) THEN 0 ELSE 1 + LeadingQuotes(Tail(s))

RECURSIVE TrailingQuotes(_)
TrailingQuotes(s) ==
    IF s = <<>> \/ ~IsQuote(s[Len(s)]) THEN 0
    ELSE 1 + TrailingQuotes(SubSeq(s, 1, Len(s) - 1))

\* str.strip('"\'')
StripQuotes(s) ==
    IF LeadingQuotes(s) = Len(s) THEN <<>>
    ELSE SubSeq(s, LeadingQuotes(s) + 1, Len(s) - TrailingQuotes(s))

\* str.split(): the maximal runs of non-whitespace, each as a str.
RECURSIVE Split(_)
Split(s) ==
    LET t == SubSeq(s, LeadingSpaces(s) + 1, Len(s))
        n == IF \E i \in 1..Len(t) : IsSpace(t[i])
             THEN (CHOOSE i \in 1..Len(t) :
                      IsSpace(t[i]) /\ \A j \in 1..(i - 1) : ~IsSpace(t[j])) - 1
             ELSE Len(t)
    IN  IF t = <<>> THEN <<>>
        ELSE <<SubSeq(t, 1, n)>> \o Split(SubSeq(t, n + 1, Len(t)))

\* ------------------------------------------------------- pattern registry

\* A registry that holds the patterns of several keywords before the
\* general ones.
PatternOrderSpecificFirst ==
    << "volume_up", "volume_down", "volume_mute", "volume_unmute",
       "open_file", "open_website", "web_search",
       "open_app", "close_app", "system_control", "volume",
       "create_file", "delete_file", "search_files", "open_url",
       "time", "date", "cpu_usage", "memory_usage", "disk_usage", "system_info",
       "weather", "help", "version" >>

\* The keys of self.patterns in insertion order (a dict iterates in it).
PatternOrder ==
    << "open_app", "close_app", "system_control", "volume",
       "open_file", "create_file", "delete_file", "search_files",
       "web_search", "open_website", "open_url",
       "time", "date", "cpu_usage", "memory_usage", "disk_usage", "system_info",
       "weather", "help", "version",
       "volume_up", "volume_down", "volume_mute", "volume_unmute" >>

\* The result of a failed match (re.match returning None).
NoMatch == [matched |-> FALSE, groups |-> <<>>]

Matched(groups) == [matched |-> TRUE, groups |-> groups]

\* A keyword of a pattern against one atom, under re.IGNORECASE.
KwEq(a, kw) == LowerAtom(a) = kw

\* ^kw1\s+kw2\s+ ... kwn$ with the last keyword one of the set `last`:
\* the keywords in turn, separated by whitespace runs, then the end.
\* Returns the atom matched by the last keyword, or "" when there is no match.
\* $ matches at the end of the text and before a line break that ends it.
RECURSIVE MatchWords(_, _, _)
MatchWords(kws, last, s) ==
    IF kws = <<>>
    THEN IF /\ Len(s) = 1 \/ (Len(s) = 2 /\ s[2] = "\n")
            /\ LowerAtom(s[1]) \in last
         THEN s[1] ELSE ""
    ELSE IF Len(s) >= 2 /\ KwEq(s[1], Head(kws)) /\ IsSpace(s[2])
         THEN MatchWords(Tail(kws), last,
                         SubSeq(s, 2 + LeadingSpaces(Tail(s)), Len(s)))
         ELSE ""

\* No atom of s is a line break.
NoBreak(s) == \A i \in 1..Len(s) : s[i] # "\n"

\* (.+)$ against the whole of s: at least one character, none of them a
\* line break, up to the end of the text or to the line break that ends it.
\* Returns the capture, or <<>> when there is no match.
CaptureToEnd(s) ==
    IF s # <<>> /\ NoBreak(s) THEN s
    ELSE IF Len(s) >= 2 /\ s[Len(s)] = "\n" /\ NoBreak(SubSeq(s, 1, Len(s) - 1))
    THEN SubSeq(s, 1, Len(s) - 1)
    ELSE <<>>

\* ^kw1\s+ ... kwn\s+(.+)$ : the keywords in turn, each followed by a greedy
\* whitespace run, then the capture.  The run before the capture takes as
\* many whitespace characters as leave a match for the capture
\* (backtracking): all of them when a capture follows, fewer when the run
\* reaches the end of the text.
RECURSIVE MatchCapture(_, _)
MatchCapture(kws, s) ==
    IF Len(s) >= 2 /\ KwEq(s[1], Head(kws)) /\ IsSpace(s[2])
    THEN LET run  == LeadingSpaces(Tail(s))
             rest == SubSeq(s, 2 + run, Len(s))
             taken == { k \in 1..run : CaptureToEnd(SubSeq(s, 2 + k, Len(s))) # <<>> }
             most == CHOOSE k \in taken : \A j \in taken : j <= k
         IN  IF Len(kws) > 1 THEN MatchCapture(Tail(kws), rest)
             ELSE IF taken # {}
             THEN Matched(<<CaptureToEnd(SubSeq(s, 2 + most, Len(s)))>>)
             ELSE NoMatch
    ELSE NoMatch

\* The part of a word that follows a leading http:// or https:// (in lower
\* case), or "none" when the word does not start with one of them.
AfterScheme(a) ==
    CASE a = "http://example.com"  -> "example.com"
      [] a = "https://example.com" -> "example.com"
      [] a = "http://"             -> ""
      [] a = "https://"            -> ""
      [] OTHER                     -> "none"

\* ^https?://.+ : a prefix match (no $), at least one character after the
\* scheme that is no line break.
MatchUrl(s) ==
    IF s # <<>> /\ AfterScheme(LowerAtom(s[1])) # "none"
                /\ (AfterScheme(LowerAtom(s[1])) # "" \/ (Len(s) > 1 /\ s[2] # "\n"))
    THEN Matched(<<>>) ELSE NoMatch

\* ^(a|b|...)$ : one atom of the set, captured.
MatchOneOf(set, s) ==
    IF MatchWords(<<>>, set, s) # "" THEN Matched(<< <<s[1]>> >>) ELSE NoMatch

\* ^kw1\s+...\s+kwn$ : no capture.
MatchExact(kws, s) ==
    IF MatchWords(SubSeq(kws, 1, Len(kws) - 1), {kws[Len(kws)]}, s) # ""
    THEN Matched(<<>>) ELSE NoMatch

\* self.compiled_patterns[cmd_type].match(s)
PatternMatch(cmd_type, s) ==
    CASE cmd_type = "open_app"       -> MatchCapture(<<"open">>, s)
      [] cmd_type = "close_app"      -> MatchCapture(<<"close">>, s)
      [] cmd_type = "system_control" ->
            MatchOneOf({"shutdown", "restart", "reboot", "lock", "logout"}, s)
      [] cmd_type = "volume"         ->
            LET w == MatchWords(<<"volume">>, {"up", "down", "mute", "unmute"}, s)
            IN  IF w # "" THEN Matched(<< <<w>> >>) ELSE NoMatch
      [] cmd_type = "open_file"      -> MatchCapture(<<"open", "file">>, s)
      [] cmd_type = "create_file"    -> MatchCapture(<<"create", "file">>, s)
      [] cmd_type = "delete_file"    -> MatchCapture(<<"delete", "file">>, s)
      [] cmd_type = "search_files"   -> MatchCapture(<<"search">>, s)
      [] cmd_type = "web_search"     -> MatchCapture(<<"search">>, s)
      [] cmd_type = "open_website"   -> MatchCapture(<<"open", "website">>, s)
      [] cmd_type = "open_url"       -> MatchUrl(s)
      [] cmd_type = "time"           -> MatchExact(<<"time">>, s)
      [] cmd_type = "date"           -> MatchExact(<<"date">>, s)
      [] cmd_type = "cpu_usage"      -> MatchExact(<<"cpu", "usage">>, s)
      [] cmd_type = "memory_usage"   -> MatchExact(<<"memory", "usage">>, s)
      [] cmd_type = "disk_usage"     -> MatchExact(<<"disk", "usage">>, s)
      [] cmd_type = "system_info"    -> MatchExact(<<"system", "info">>, s)
      [] cmd_type = "weather"        -> MatchExact(<<"weather">>, s)
      [] cmd_type = "help"           -> MatchOneOf({"help", "?"}, s)
      [] cmd_type = "version"        -> MatchExact(<<"version">>, s)
      [] cmd_type = "volume_up"      -> MatchExact(<<"volume", "up">>, s)
      [] cmd_type = "volume_down"    -> MatchExact(<<"volume", "down">>, s)
      [] cmd_type = "volume_mute"    -> MatchExact(<<"volume", "mute">>, s)
      [] cmd_type = "volume_unmute"  -> MatchExact(<<"volume", "unmute">>, s)

\* The first pattern at or after position i of the registry that matches s.
RECURSIVE ParseFrom(_, _)
ParseFrom(i, s) ==
    IF i > Len(PatternOrder) THEN [cmd_type |-> "unknown", params |-> <<>>, none |-> TRUE]
    ELSE IF PatternMatch(PatternOrder[i], s).matched
         THEN [cmd_type |-> PatternOrder[i],
               params   |-> PatternMatch(PatternOrder[i], s).groups,
               none     |-> PatternMatch(PatternOrder[i], s).groups = <<>>]
         ELSE ParseFrom(i + 1, s)

\* The last pattern of the registry that matches s (a registry scanned
\* backwards).
RECURSIVE ParseBackFrom(_, _)
ParseBackFrom(i, s) ==
    IF i < 1 THEN [cmd_type |-> "unknown", params |-> <<>>, none |-> TRUE]
    ELSE IF PatternMatch(PatternOrder[i], s).matched
         THEN [cmd_type |-> PatternOrder[i],
               params   |-> PatternMatch(PatternOrder[i], s).groups,
               none     |-> PatternMatch(PatternOrder[i], s).groups = <<>>]
         ELSE ParseBackFrom(i - 1, s)

ParseCommandLastMatch(s) == ParseBackFrom(Len(PatternOrder), s)

\* A _parse_command that returns the empty tuple of groups as it is.
ParseCommandEmptyTuple(s) == [ParseFrom(1, s) EXCEPT !.none = FALSE]

\* A classifier that scans the registry backwards while a worker is live.
ParseCommandWhenBusy(s) ==
    IF active_workers # <<>> THEN ParseBackFrom(Len(PatternOrder), s)
    ELSE ParseFrom(1, s)

\* CommandProcessor._parse_command: (cmd_type, params).  params holds the
\* groups; none is TRUE where the code returns None in their place
\* (`match.groups() if match.groups() else None`, and no match at all).
ParseCommand(s) == ParseFrom(1, s)

\* ------------------------------------------------------ suggestion engine

\* A chain that offers four commands whatever the first word is.
SuggestionForAnyWord(first_word) ==
    << <<"open", " ", "<application>">>, <<"close", " ", "<application>">>,
       <<"shutdown">>, <<"restart">> >>

\* A chain that adds 'help' to the suggestion of every group.
SuggestionForWithHelp(first_word) ==
    CASE first_word \in {<<"opn">>, <<"ope">>}      -> << <<"open", " ", "<application>">>, <<"help">> >>
      [] first_word \in {<<"cls">>, <<"cloe">>}     -> << <<"close", " ", "<application>">>, <<"help">> >>
      [] first_word \in {<<"shut">>, <<"shutdwn">>} -> << <<"shutdown">>, <<"help">> >>
      [] first_word \in {<<"rest">>, <<"restrt">>}  -> << <<"restart">>, <<"help">> >>
      [] first_word \in {<<"serch">>, <<"serh">>}   -> << <<"search", " ", "<query>">>, <<"help">> >>
      [] first_word \in {<<"tim">>}                 -> << <<"time">>, <<"help">> >>
      [] first_word \in {<<"dat">>}                 -> << <<"date">>, <<"help">> >>
      [] OTHER                                      -> <<>>

\* The if/elif chain over the first word.
SuggestionFor(first_word) ==
    CASE first_word \in {<<"opn">>, <<"ope">>}      -> << <<"open", " ", "<application>">> >>
      [] first_word \in {<<"cls">>, <<"cloe">>}     -> << <<"close", " ", "<application>">> >>
      [] first_word \in {<<"shut">>, <<"shutdwn">>} -> << <<"shutdown">> >>
      [] first_word \in {<<"rest">>, <<"restrt">>}  -> << <<"restart">> >>
      [] first_word \in {<<"serch">>, <<"serh">>}   -> << <<"search", " ", "<query>">> >>
      [] first_word \in {<<"tim">>}                 -> << <<"time">> >>
      [] first_word \in {<<"dat">>}                 -> << <<"date">> >>
      [] OTHER                                      -> <<>>

\* CommandProcessor._get_command_suggestions
GetCommandSuggestions(s) ==
    LET command_words == Split(s)
        suggestions   == IF command_words # <<>>
                         THEN SuggestionFor(command_words[1]) ELSE <<>>
    IN  SubSeq(suggestions, 1, IF Len(suggestions) < 3 THEN Len(suggestions) ELSE 3)

\* --------------------------------------------------------------- messages

\* A message: the fixed text of its format string, the str substituted into
\* it and, for a message that lists things, the listed strs.
Msg(kind, arg) == [kind |-> kind, arg |-> arg, items |-> <<>>]

MsgList(kind, arg, items) == [kind |-> kind, arg |-> arg, items |-> items]

\* The message CommandProcessor._handle_unknown_command emits on command_failed.
UnknownCommandMessage(s) ==
    IF GetCommandSuggestions(s) # <<>>
    THEN MsgList("Unknown command '{}'. Did you mean:", s, GetCommandSuggestions(s))
    ELSE Msg("Unknown command '{}'. Type 'help' for available commands.", s)

\* ----------------------------------------------------------- configuration

\* A configuration value: a nested dict or a leaf.
Leaf(v) == [isdict |-> FALSE, items |-> <<>>, val |-> v]

Dict(f) == [isdict |-> TRUE, items |-> f, val |-> FALSE]

\* ConfigManager._load_default_config, the part the pipeline reads.
DefaultConfig ==
    Dict([commands |-> Dict([confirm_dangerous |-> Leaf(TRUE),
                             show_feedback     |-> Leaf(TRUE)])])

\* The loop `for key in keys: value = value[key]` of ConfigManager.get;
\* found is FALSE where the code raises KeyError or TypeError.
RECURSIVE ConfigWalk(_, _)
ConfigWalk(value, keys) ==
    IF keys = <<>> THEN [found |-> TRUE, value |-> value]
    ELSE IF value.isdict /\ Head(keys) \in DOMAIN value.items
         THEN ConfigWalk(value.items[Head(keys)], Tail(keys))
         ELSE [found |-> FALSE, value |-> value]

\* A get that answers a missing key with False, whatever default it was
\* given.
ConfigGetMissingIsFalse(keys, default) ==
    IF ConfigWalk(config, keys).found THEN ConfigWalk(config, keys).value
    ELSE Leaf(FALSE)

\* ConfigManager.get(key_path, default); keys is key_path.split('.').
ConfigGet(keys, default) ==
    IF ConfigWalk(config, keys).found THEN ConfigWalk(config, keys).value
    ELSE default

\* Python truth of a configuration value.
Truthy(v) == IF v.isdict THEN DOMAIN v.items # {} ELSE v.val

\* A gate that is on whatever the configuration says.
ConfirmDangerousAlways == TRUE

\* self.config_manager.get('commands.confirm_dangerous', True), as a condition.
ConfirmDangerous == Truthy(ConfigGet(<<"commands", "confirm_dangerous">>, Leaf(TRUE)))

\* ------------------------------------------------------------ environment

\* os.path.expanduser on a path: a leading ~ becomes the home directory.
ExpandUser(path) ==
    IF path # <<>> /\ path[1] = "~/notes.txt"
    THEN <<"/home/user/notes.txt">> \o Tail(path) ELSE path

\* bool(os.path.dirname(filename)): the name holds a directory part.
HasDirname(filename) ==
    filename # <<>> /\ filename[1] \in {"/tmp/x", "/tmp/X", "/tmp/y", "~/notes.txt",
                                         "/home/user/notes.txt"}

\* os.path.join(os.path.expanduser("~"), filename)
JoinHome(filename) ==
    IF filename[1] = "notes.txt" THEN <<"/home/user/notes.txt">> \o Tail(filename)
    ELSE <<"/home/user/">> \o filename

\* The executables `which` finds on the system path.
OnPath == { <<"htop">>, <<"firefox">> }

\* A subprocess started by subprocess.run or subprocess.Popen.
Proc(prog, arg) == [prog |-> prog, arg |-> arg]

\* What a handler returns and does: its message, the disk after it, the
\* subprocesses it started and the process names it terminated.
Outcome(msg, disk, started, terminated) ==
    [msg |-> msg, fs |-> disk, started |-> started, terminated |-> terminated]

\* A handler that returns msg and touches nothing.
Pure(msg) == Outcome(msg, fs, {}, <<>>)

\* str(e) of the exception an external operation raised.
FaultText == <<"<exception>">>

\* ---------------------------------------------------------------- handlers
\* Every handler takes `fault`: whether the external operation it calls
\* (subprocess, psutil, os, datetime) raises instead of acting.

\* The keys of TaskHandler.app_commands in insertion order.
AppCommandKeys ==
    << <<"firefox">>, <<"chrome">>, <<"google", " ", "chrome">>, <<"chromium">>,
       <<"vscode">>, <<"visual", " ", "studio", " ", "code">>, <<"terminal">>,
       <<"console">>, <<"files">>, <<"file", " ", "manager">>, <<"calculator">>,
       <<"text", " ", "editor">>, <<"gedit">>, <<"music">>, <<"rhythmbox">>,
       <<"settings">>, <<"system", " ", "settings">> >>

\* TaskHandler.app_commands[app_name]
AppCommand(app_name) ==
    CASE app_name = <<"firefox">>                             -> <<"firefox">>
      [] app_name \in {<<"chrome">>, <<"google", " ", "chrome">>} -> <<"google-chrome">>
      [] app_name = <<"chromium">>                            -> <<"chromium-browser">>
      [] app_name \in {<<"vscode">>, <<"visual", " ", "studio", " ", "code">>} -> <<"code">>
      [] app_name \in {<<"terminal">>, <<"console">>}         -> <<"gnome-terminal">>
      [] app_name \in {<<"files">>, <<"file", " ", "manager">>} -> <<"nautilus">>
      [] app_name = <<"calculator">>                          -> <<"gnome-calculator">>
      [] app_name \in {<<"text", " ", "editor">>, <<"gedit">>} -> <<"gedit">>
      [] app_name \in {<<"music">>, <<"rhythmbox">>}          -> <<"rhythmbox">>
      [] app_name \in {<<"settings">>, <<"system", " ", "settings">>} -> <<"gnome-control-center">>

InAppCommands(app_name) == \E i \in 1..Len(AppCommandKeys) : AppCommandKeys[i] = app_name

\* list(self.app_commands.keys())[:10]
AppSample == SubSeq(AppCommandKeys, 1, 10)

\* The not-found result of _handle_open_app.
AppNotFound(app_name) ==
    MsgList("Application '{}' not found. Available apps: {}", app_name, AppSample)

\* An _handle_open_app that probes the system path for the literal name
\* first and looks into the alias table only when the probe fails.
HandleOpenAppProbeFirst(raw, fault) ==
    LET app_name == Strip(Lower(raw)) IN
    IF app_name = <<>> THEN Pure(Msg("Please specify an application name", <<>>))
    ELSE IF fault THEN Pure(Msg("Failed to open {}: {e}", app_name))
    ELSE IF app_name \in OnPath
    THEN Outcome(Msg("Opening {}...", app_name), fs,
                 {Proc("which", app_name), Proc("Popen", app_name)}, <<>>)
    ELSE IF InAppCommands(app_name)
    THEN Outcome(Msg("Opening {}...", app_name), fs,
                 {Proc("which", app_name), Proc("Popen", AppCommand(app_name))}, <<>>)
    ELSE Outcome(AppNotFound(app_name), fs, {Proc("which", app_name)}, <<>>)

\* TaskHandler._handle_open_app: the alias table, then the probe
\* subprocess.run(['which', app_name]) and the launch of the literal name
\* inside `try: ... except: pass`, then the not-found result.
HandleOpenApp(raw, fault) ==
    LET app_name == Strip(Lower(raw)) IN
    IF app_name = <<>> THEN Pure(Msg("Please specify an application name", <<>>))
    ELSE IF InAppCommands(app_name)
    THEN IF fault THEN Pure(Msg("Failed to open {}: {e}", app_name))
         ELSE Outcome(Msg("Opening {}...", app_name), fs,
                      {Proc("Popen", AppCommand(app_name))}, <<>>)
    ELSE IF fault THEN Pure(AppNotFound(app_name))
    ELSE IF app_name \in OnPath
    THEN Outcome(Msg("Opening {}...", app_name), fs,
                 {Proc("which", app_name), Proc("Popen", app_name)}, <<>>)
    ELSE Outcome(AppNotFound(app_name), fs, {Proc("which", app_name)}, <<>>)

\* process_names.get(app_name, app_name) of _handle_close_app
ProcessName(app_name) ==
    CASE app_name = <<"firefox">>                             -> <<"firefox">>
      [] app_name \in {<<"chrome">>, <<"google", " ", "chrome">>} -> <<"google-chrome">>
      [] app_name = <<"chromium">>                            -> <<"chromium-browser">>
      [] app_name \in {<<"vscode">>, <<"visual", " ", "studio", " ", "code">>} -> <<"code">>
      [] app_name = <<"terminal">>                            -> <<"gnome-terminal">>
      [] app_name = <<"files">>                               -> <<"nautilus">>
      [] app_name = <<"calculator">>                          -> <<"gnome-calculator">>
      [] app_name \in {<<"text", " ", "editor">>, <<"gedit">>} -> <<"gedit">>
      [] OTHER                                                -> app_name

\* target.lower() in name.lower(): the substring relation on the process
\* names of the model.
NameContains(name, target) ==
    \/ name = target
    \/ name = <<"firefox-bin">> /\ target = <<"firefox">>
    \/ name = <<"gnome-terminal-server">> /\ target = <<"gnome-terminal">>
    \/ name = <<"codelite">> /\ target = <<"code">>

\* The loop body of _handle_close_app gets through for process i: its name
\* contains target and proc.terminate() does not raise NoSuchProcess or
\* AccessDenied (`except ...: continue` goes on to the next process).
Terminates(i, target) ==
    NameContains(procs[i], target) /\ procs[i] \notin inputs.denied

\* The position in procs of the first process the loop terminates, or 0
\* when the loop runs to its end.
FirstMatch(target) ==
    IF \E i \in 1..Len(procs) : Terminates(i, target)
    THEN CHOOSE i \in 1..Len(procs) :
            /\ Terminates(i, target)
            /\ \A j \in 1..(i - 1) : ~Terminates(j, target)
    ELSE 0

\* The processes of procs from position i on that the loop would terminate.
RECURSIVE MatchesFrom(_, _)
MatchesFrom(i, target) ==
    IF i > Len(procs) THEN <<>>
    ELSE (IF Terminates(i, target) THEN <<procs[i]>> ELSE <<>>)
            \o MatchesFrom(i + 1, target)

\* An _handle_close_app whose loop does not return at the first process it
\* terminates.
HandleCloseAppEveryMatch(raw, fault) ==
    LET app_name == Strip(Lower(raw))
        target   == ProcessName(app_name)
    IN  IF app_name = <<>> THEN Pure(Msg("Please specify an application name", <<>>))
        ELSE IF fault THEN Pure(Msg("Failed to close {}: {e}", app_name))
        ELSE IF FirstMatch(target) # 0
        THEN Outcome(Msg("Closed {}", app_name), fs, {}, MatchesFrom(1, target))
        ELSE Pure(Msg("Application '{}' is not running", app_name))

\* TaskHandler._handle_close_app
HandleCloseApp(raw, fault) ==
    LET app_name == Strip(Lower(raw))
        target   == ProcessName(app_name)
    IN  IF app_name = <<>> THEN Pure(Msg("Please specify an application name", <<>>))
        ELSE IF fault THEN Pure(Msg("Failed to close {}: {e}", app_name))
        ELSE IF FirstMatch(target) # 0
        THEN Outcome(Msg("Closed {}", app_name), fs, {}, <<procs[FirstMatch(target)]>>)
        ELSE Pure(Msg("Application '{}' is not running", app_name))

\* One branch of _handle_system_control: run the program, report.
RunAndReport(prog, arg, done, failed, failarg, fault) ==
    IF fault THEN Pure(Msg(failed, failarg))
    ELSE Outcome(Msg(done, <<>>), fs, {Proc(prog, arg)}, <<>>)

\* An _handle_system_control that puts lock and logout behind the gate too.
HandleSystemControlGateAll(raw, fault) ==
    LET action == Strip(Lower(raw))
        run(prog, done) ==
            RunAndReport(prog, <<>>, done, "Failed to execute {}: {e}", action, fault)
    IN  CASE action = <<"shutdown">> ->
                IF ConfirmDangerous
                THEN Pure(Msg("Shutdown command requires confirmation in settings", <<>>))
                ELSE run("shutdown now", "Shutting down system...")
          [] action \in {<<"restart">>, <<"reboot">>} ->
                IF ConfirmDangerous
                THEN Pure(Msg("Restart command requires confirmation in settings", <<>>))
                ELSE run("reboot", "Restarting system...")
          [] action = <<"lock">>   ->
                IF ConfirmDangerous
                THEN Pure(Msg("Lock command requires confirmation in settings", <<>>))
                ELSE run("gnome-screensaver-command -l", "Screen locked")
          [] action = <<"logout">> ->
                IF ConfirmDangerous
                THEN Pure(Msg("Logout command requires confirmation in settings", <<>>))
                ELSE run("gnome-session-quit --logout", "Logging out...")
          [] OTHER -> Pure(Msg("Unknown system control action: {}", action))

\* TaskHandler._handle_system_control
HandleSystemControl(raw, fault) ==
    LET action == Strip(Lower(raw))
        run(prog, done) ==
            RunAndReport(prog, <<>>, done, "Failed to execute {}: {e}", action, fault)
    IN  CASE action = <<"shutdown">> ->
                IF ConfirmDangerous
                THEN Pure(Msg("Shutdown command requires confirmation in settings", <<>>))
                ELSE run("shutdown now", "Shutting down system...")
          [] action \in {<<"restart">>, <<"reboot">>} ->
                IF ConfirmDangerous
                THEN Pure(Msg("Restart command requires confirmation in settings", <<>>))
                ELSE run("reboot", "Restarting system...")
          [] action = <<"lock">>   -> run("gnome-screensaver-command -l", "Screen locked")
          [] action = <<"logout">> -> run("gnome-session-quit --logout", "Logging out...")
          [] OTHER -> Pure(Msg("Unknown system control action: {}", action))

\* TaskHandler._handle_volume_control
HandleVolumeControl(cmd_type, fault) ==
    LET run(prog, done) ==
            RunAndReport(prog, <<>>, done, "Failed to control volume: {e}", <<>>, fault)
    IN  CASE cmd_type \in {"volume_up", "volume"} ->
                run("amixer sset Master 5%+", "Volume increased")
          [] cmd_type = "volume_down"   -> run("amixer sset Master 5%-", "Volume decreased")
          [] cmd_type = "volume_mute"   -> run("amixer sset Master mute", "Volume muted")
          [] cmd_type = "volume_unmute" -> run("amixer sset Master unmute", "Volume unmuted")
          [] OTHER -> Pure(Msg("Unknown volume command: {}", <<cmd_type>>))

\* TaskHandler._handle_open_file
HandleOpenFile(raw, fault) ==
    LET stripped  == StripQuotes(Strip(raw))
        file_path == ExpandUser(stripped)
    IN  IF stripped = <<>> THEN Pure(Msg("Please specify a file path", <<>>))
        ELSE IF file_path \notin fs THEN Pure(Msg("File not found: {}", file_path))
        ELSE IF fault THEN Pure(Msg("Failed to open file: {e}", FaultText))
        ELSE Outcome(Msg("Opening {}", file_path), fs, {Proc("xdg-open", file_path)}, <<>>)

\* filename.strip().strip('"\'') of _handle_create_file
CreateFileName(raw) == StripQuotes(Strip(raw))

\* The path _handle_create_file writes: the name itself when it holds a
\* directory, else the name under the home directory.
CreateFilePath(raw) ==
    IF HasDirname(CreateFileName(raw)) THEN ExpandUser(CreateFileName(raw))
    ELSE JoinHome(CreateFileName(raw))

\* _handle_create_file from `with open(file_path, 'w')` on: the write, which
\* creates the file or truncates the one that is there.
CreateFileWrite(raw, fault) ==
    IF fault THEN Pure(Msg("Failed to create file: {e}", FaultText))
    ELSE Outcome(Msg("Created file: {}", CreateFilePath(raw)),
                 fs \cup {CreateFilePath(raw)}, {}, <<>>)

\* TaskHandler._handle_create_file
HandleCreateFile(raw, fault) ==
    IF CreateFileName(raw) = <<>> THEN Pure(Msg("Please specify a filename", <<>>))
    ELSE IF CreateFilePath(raw) \in fs
    THEN Pure(Msg("File already exists: {}", CreateFilePath(raw)))
    ELSE CreateFileWrite(raw, fault)

\* The dangerous-action gate of _handle_delete_file placed after the removal.
HandleDeleteFileGateLate(raw, fault) ==
    LET stripped  == StripQuotes(Strip(raw))
        file_path == ExpandUser(stripped)
    IN  IF stripped = <<>> THEN Pure(Msg("Please specify a file path", <<>>))
        ELSE IF file_path \notin fs THEN Pure(Msg("File not found: {}", file_path))
        ELSE IF fault THEN Pure(Msg("Failed to delete file: {e}", FaultText))
        ELSE IF ConfirmDangerous
        THEN Outcome(Msg("File deletion requires confirmation in settings", <<>>),
                     fs \ {file_path}, {}, <<>>)
        ELSE Outcome(Msg("Deleted file: {}", file_path), fs \ {file_path}, {}, <<>>)

\* The dangerous-action gate of _handle_delete_file placed before the
\* existence check.
HandleDeleteFileGateFirst(raw, fault) ==
    LET stripped  == StripQuotes(Strip(raw))
        file_path == ExpandUser(stripped)
    IN  IF stripped = <<>> THEN Pure(Msg("Please specify a file path", <<>>))
        ELSE IF ConfirmDangerous
        THEN Pure(Msg("File deletion requires confirmation in settings", <<>>))
        ELSE IF file_path \notin fs THEN Pure(Msg("File not found: {}", file_path))
        ELSE IF fault THEN Pure(Msg("Failed to delete file: {e}", FaultText))
        ELSE Outcome(Msg("Deleted file: {}", file_path), fs \ {file_path}, {}, <<>>)

\* TaskHandler._handle_delete_file
HandleDeleteFile(raw, fault) ==
    LET stripped  == StripQuotes(Strip(raw))
        file_path == ExpandUser(stripped)
    IN  IF stripped = <<>> THEN Pure(Msg("Please specify a file path", <<>>))
        ELSE IF file_path \notin fs THEN Pure(Msg("File not found: {}", file_path))
        ELSE IF ConfirmDangerous
        THEN Pure(Msg("File deletion requires confirmation in settings", <<>>))
        ELSE IF fault THEN Pure(Msg("Failed to delete file: {e}", FaultText))
        ELSE Outcome(Msg("Deleted file: {}", file_path), fs \ {file_path}, {}, <<>>)

\* Text files of a home directory that holds more files than a search
\* returns.
HomeTextFiles ==
    << <<"/home/user/a01.txt">>, <<"/home/user/a02.txt">>, <<"/home/user/a03.txt">>,
       <<"/home/user/a04.txt">>, <<"/home/user/a05.txt">>, <<"/home/user/a06.txt">>,
       <<"/home/user/a07.txt">>, <<"/home/user/a08.txt">>, <<"/home/user/a09.txt">>,
       <<"/home/user/a10.txt">>, <<"/home/user/a11.txt">>, <<"/home/user/a12.txt">> >>

\* f"*{pattern}*" against a path under the home directory: the file name
\* holds the pattern.
GlobMatches(path, pattern) ==
    \/ /\ path \in {<<"/home/user/notes.txt">>, <<"/home/user/python.txt">>}
       /\ \/ pattern = <<"notes">> /\ path = <<"/home/user/notes.txt">>
          \/ pattern = <<"python">> /\ path = <<"/home/user/python.txt">>
          \/ pattern = <<"txt">>
    \/ /\ pattern = <<"txt">>
       /\ \E i \in 1..Len(HomeTextFiles) : path = HomeTextFiles[i]

\* A set of paths as a sequence, in the order glob yields them.
RECURSIVE SeqOfSet(_)
SeqOfSet(S) ==
    IF S = {} THEN <<>>
    ELSE LET x == CHOOSE y \in S : TRUE IN <<x>> \o SeqOfSet(S \ {x})

\* glob.glob(search_pattern, recursive=True) without the slice.
GlobHomeAll(pattern) == SeqOfSet({p \in fs : GlobMatches(p, pattern)})

\* str(n) for the lengths of the model.
NumText(n) ==
    CASE n = 0 -> "0" [] n = 1 -> "1" [] n = 2 -> "2" [] n = 3 -> "3"
      [] n = 4 -> "4" [] n = 5 -> "5" [] n = 6 -> "6" [] n = 7 -> "7"
      [] n = 8 -> "8" [] n = 9 -> "9" [] n = 10 -> "10" [] n = 11 -> "11"
      [] n = 12 -> "12" [] n = 13 -> "13" [] OTHER -> "14"

\* glob.glob(search_pattern, recursive=True)[:10]
GlobHome(pattern) ==
    LET all == SeqOfSet({p \in fs : GlobMatches(p, pattern)})
    IN  SubSeq(all, 1, IF Len(all) < 10 THEN Len(all) ELSE 10)

\* TaskHandler._handle_search_files
HandleSearchFiles(raw, fault) ==
    LET pattern == StripQuotes(Strip(raw)) IN
    IF pattern = <<>> THEN Pure(Msg("Please specify a search pattern", <<>>))
    ELSE IF fault THEN Pure(Msg("Failed to search files: {e}", FaultText))
    ELSE IF GlobHome(pattern) # <<>>
    THEN Pure(MsgList("Found {} files:", <<NumText(Len(GlobHome(pattern)))>>,
                      GlobHome(pattern)))
    ELSE Pure(Msg("No files found matching: {}", pattern))

\* urllib.parse.quote_plus on one atom: a space becomes +, the other
\* characters outside the safe set are percent-encoded.
QuotePlusAtom(a) ==
    CASE a = " "  -> "+"
      [] a = "\t" -> "%09"
      [] a = "\"" -> "%22"
      [] a = "'"  -> "%27"
      [] OTHER    -> a

\* TaskHandler._handle_web_search
HandleWebSearch(raw, fault) ==
    LET query      == Strip(raw)
        search_url == <<"https://www.google.com/search?q=">>
                         \o [i \in 1..Len(query) |-> QuotePlusAtom(query[i])]
    IN  IF query = <<>> THEN Pure(Msg("Please specify a search query", <<>>))
        ELSE IF fault THEN Pure(Msg("Failed to perform web search: {e}", FaultText))
        ELSE Outcome(Msg("Searching for: {}", query), fs, {Proc("xdg-open", search_url)}, <<>>)

\* url.startswith(('http://', 'https://'))
StartsWithScheme(url) == url # <<>> /\ AfterScheme(url[1]) # "none"

\* An _handle_open_website that prepends the default scheme to every URL.
HandleOpenWebsiteAlwaysPrepend(raw, fault) ==
    LET stripped == Strip(raw)
        url      == <<"https://">> \o stripped
    IN  IF stripped = <<>> THEN Pure(Msg("Please specify a website URL", <<>>))
        ELSE IF fault THEN Pure(Msg("Failed to open website: {e}", FaultText))
        ELSE Outcome(Msg("Opening website: {}", url), fs, {Proc("xdg-open", url)}, <<>>)

\* TaskHandler._handle_open_website
HandleOpenWebsite(raw, fault) ==
    LET stripped == Strip(raw)
        url      == IF StartsWithScheme(stripped) THEN stripped
                    ELSE <<"https://">> \o stripped
    IN  IF stripped = <<>> THEN Pure(Msg("Please specify a website URL", <<>>))
        ELSE IF fault THEN Pure(Msg("Failed to open website: {e}", FaultText))
        ELSE Outcome(Msg("Opening website: {}", url), fs, {Proc("xdg-open", url)}, <<>>)

\* TaskHandler._handle_open_url
HandleOpenUrl(raw, fault) == HandleOpenWebsite(raw, fault)

\* The informational handlers (_handle_time, _handle_date, _handle_cpu_usage,
\* _handle_memory_usage, _handle_disk_usage, _handle_system_info): the value
\* read, or the error text when the collection raises.
HandleInfo(ok, failed, fault) ==
    IF fault THEN Pure(Msg(failed, FaultText)) ELSE Pure(Msg(ok, <<"<value>">>))

\* params[0] if params else ""
FirstParam(params) == IF params # <<>> THEN params[1] ELSE <<>>

\* TaskHandler.execute_command: the routing chain.  The outer except is
\* never entered: every handler catches its own exceptions.
ExecuteCommand(cmd_type, params, fault) ==
    CASE cmd_type = "open_app"       -> HandleOpenApp(FirstParam(params), fault)
      [] cmd_type = "close_app"      -> HandleCloseApp(FirstParam(params), fault)
      [] cmd_type = "system_control" -> HandleSystemControl(FirstParam(params), fault)
      [] cmd_type \in {"volume", "volume_up", "volume_down", "volume_mute",
                       "volume_unmute"} -> HandleVolumeControl(cmd_type, fault)
      [] cmd_type = "open_file"      -> HandleOpenFile(FirstParam(params), fault)
      [] cmd_type = "create_file"    -> HandleCreateFile(FirstParam(params), fault)
      [] cmd_type = "delete_file"    -> HandleDeleteFile(FirstParam(params), fault)
      [] cmd_type = "search_files"   -> HandleSearchFiles(FirstParam(params), fault)
      [] cmd_type = "web_search"     -> HandleWebSearch(FirstParam(params), fault)
      [] cmd_type = "open_website"   -> HandleOpenWebsite(FirstParam(params), fault)
      [] cmd_type = "open_url"       -> HandleOpenUrl(FirstParam(params), fault)
      [] cmd_type = "time" ->
            HandleInfo("Current time: {}", "Error getting time: {e}", fault)
      [] cmd_type = "date" ->
            HandleInfo("Today's date: {}", "Error getting date: {e}", fault)
      [] cmd_type = "cpu_usage" ->
            HandleInfo("CPU Usage: {}", "Error getting CPU usage: {e}", fault)
      [] cmd_type = "memory_usage" ->
            HandleInfo("Memory Usage: {}", "Error getting memory usage: {e}", fault)
      [] cmd_type = "disk_usage" ->
            HandleInfo("Disk Usage: {}", "Error getting disk usage: {e}", fault)
      [] cmd_type = "system_info" ->
            HandleInfo("System Information: {}", "Error getting system info: {e}", fault)
      [] cmd_type = "weather" ->
            Pure(Msg("Weather feature not yet implemented. Requires API integration.", <<>>))
      [] cmd_type = "help"    -> Pure(Msg("Available Commands: ...", <<>>))
      [] cmd_type = "version" -> Pure(Msg("Virtual Assistant v1.0.0 for Ubuntu", <<>>))
      [] OTHER -> Pure(Msg("Unknown command type: {}", <<cmd_type>>))

\* -------------------------------------------------------------- dispatcher

\* Bounds of the model.
\* A call TaskHandler.execute_command(cmd_type, params); NoCall: none is made.
Call(cmd_type, params) == [cmd_type |-> cmd_type, params |-> params]

NoCall == Call("none", <<>>)

MaxCommands == 2

\* list.remove(x): the list without its first x.
RECURSIVE Remove(_, _)
Remove(list, x) ==
    IF list = <<>> THEN <<>>
    ELSE IF Head(list) = x THEN Tail(list)
    ELSE <<Head(list)>> \o Remove(Tail(list), x)

\* x in list
In(x, list) == \E i \in 1..Len(list) : list[i] = x

\* A queued signal or posted event of the main thread's event loop.
Event(type, w, msg) == [type |-> type, w |-> w, msg |-> msg]

NoMsg == Msg("", <<>>)

\* One emission of command_completed ("completed") or command_failed
\* ("failed"): the channel, the message, the submission it answers and
\* whether a cleanup() called after that submission had already returned.
Emission(chan, msg, sub, late) == [chan |-> chan, msg |-> msg, sub |-> sub, late |-> late]

\* command_text.strip().lower() of process_command
Normalize(text) == Lower(Strip(text))

\* A CommandWorker just started.  Besides its own fields and the state of
\* its thread the record keeps what has happened to it: cut (a cleanup() met
\* it), deleted (its QThread object is destroyed), calls (the calls cleanup()
\* made on it, in order), runs (the number of execute_command calls of its
\* run()), faulted (an external operation of its handler was set to raise),
\* checked (its _handle_create_file has found the path free and has not yet
\* written) and overwrote (its write met a file that was there).
NewWorker(cmd_type, params, sub) ==
    [cmd_type |-> cmd_type, params |-> params, sub |-> sub,
     state |-> "running", cut |-> FALSE, deleted |-> FALSE,
     calls |-> <<>>, runs |-> 0, faulted |-> FALSE,
     checked |-> FALSE, overwrote |-> FALSE]

\* A decision of process_command: the route ("empty", "unknown" or "spawn")
\* and the (cmd_type, params) of the classifier.
Decision(route, cmd_type, params) ==
    [route |-> route, cmd_type |-> cmd_type, params |-> params]

\* A process_command that sends an empty text on to the classifier.
ClassifyNoEmptyCheck(text) ==
    LET parsed == ParseCommand(Normalize(text)) IN
    IF parsed.cmd_type = "unknown" THEN Decision("unknown", "unknown", <<>>)
    ELSE Decision("spawn", parsed.cmd_type, parsed.params)

\* A process_command that executes the first suggestion of an unknown text.
ClassifyFollowSuggestion(text) ==
    LET s      == Normalize(text)
        parsed == ParseCommand(s)
    IN  IF s = <<>> THEN Decision("empty", "none", <<>>)
        ELSE IF parsed.cmd_type = "unknown" /\ GetCommandSuggestions(s) = <<>>
        THEN Decision("unknown", "unknown", <<>>)
        ELSE IF parsed.cmd_type = "unknown"
        THEN Decision("spawn", ParseCommand(GetCommandSuggestions(s)[1]).cmd_type,
                      ParseCommand(GetCommandSuggestions(s)[1]).params)
        ELSE Decision("spawn", parsed.cmd_type, parsed.params)

\* The branches of process_command: the empty check on the normalized text
\* (the classifier is not called), then _parse_command and the unknown check.
Classify(text) ==
    LET s      == Normalize(text)
        parsed == ParseCommand(s)
    IN  IF s = <<>> THEN Decision("empty", "none", <<>>)
        ELSE IF parsed.cmd_type = "unknown" THEN Decision("unknown", "unknown", <<>>)
        ELSE Decision("spawn", parsed.cmd_type, parsed.params)

\* The record kept of one process_command call; cleaned: a cleanup() called
\* after it has returned.
Submission(text, d, w) ==
    [text |-> text, route |-> d.route, cmd_type |-> d.cmd_type, params |-> d.params,
     worker |-> w, cleaned |-> FALSE]

\* A process_command that executes a recognized command itself, before it
\* returns, and reports the result at once.
ProcessCommandInline(text) ==
    /\ pc = "idle"
    /\ inputs.left > 0
    /\ inputs' = [inputs EXCEPT !.left = @ - 1]
    /\ LET d       == Classify(text)
           outcome == ExecuteCommand(d.cmd_type, d.params, FALSE)
       IN  /\ d.route = "spawn"
           /\ fs' = outcome.fs
           /\ spawned' = spawned \cup outcome.started
           /\ killed' = killed \o outcome.terminated
           /\ procs' = IF outcome.terminated = <<>> THEN procs
                       ELSE Remove(procs, outcome.terminated[1])
           /\ emitted' = Append(emitted,
                  Emission("completed", outcome.msg, Len(subs) + 1, FALSE))
           /\ subs' = Append(subs, Submission(text, d, 0))
    /\ UNCHANGED << config, workers, active_workers, events, pc, todo >>

\* A processor that cleanup() stops: once a cleanup() has returned after a
\* submission, a recognized command is refused and no worker is created.
ProcessCommandStoppable(text) ==
    /\ pc = "idle"
    /\ inputs.left > 0
    /\ inputs' = [inputs EXCEPT !.left = @ - 1]
    /\ LET sub == Len(subs) + 1
           w   == Len(workers) + 1
           d   == Classify(text)
           stopped == \E s \in 1..Len(subs) : subs[s].cleaned
       IN  CASE d.route = "empty" ->
                  /\ emitted' = Append(emitted,
                         Emission("failed", Msg("Empty command", <<>>), sub, FALSE))
                  /\ subs' = Append(subs, Submission(text, d, 0))
                  /\ UNCHANGED << workers, active_workers >>
             [] d.route = "unknown" ->
                  /\ emitted' = Append(emitted,
                         Emission("failed", UnknownCommandMessage(Normalize(text)), sub, FALSE))
                  /\ subs' = Append(subs, Submission(text, d, 0))
                  /\ UNCHANGED << workers, active_workers >>
             [] stopped ->
                  /\ emitted' = Append(emitted,
                         Emission("failed", Msg("Command processor stopped", <<>>), sub, FALSE))
                  /\ subs' = Append(subs, Submission(text, d, 0))
                  /\ UNCHANGED << workers, active_workers >>
             [] OTHER ->
                  /\ workers' = Append(workers, NewWorker(d.cmd_type, d.params, sub))
                  /\ active_workers' = Append(active_workers, w)
                  /\ subs' = Append(subs, Submission(text, d, w))
                  /\ UNCHANGED emitted
    /\ UNCHANGED << config, fs, procs, spawned, killed, events, pc, todo >>

\* process_command can be entered: a caller in the main thread (a slot of the
\* GUI) runs between two events of the event loop, a caller in a thread of
\* its own (process_voice_command in the listening thread) at any time.
\* Nothing in the class is guarded by a lock.
CallerMayEnter == IF inputs.caller = "main" THEN pc = "idle" ELSE pc # "aborted"

\* CommandProcessor.process_command(text), with _handle_unknown_command and
\* _execute_command_async, in the caller's thread.
ProcessCommand(text) ==
    /\ CallerMayEnter
    /\ inputs.left > 0
    /\ inputs' = [inputs EXCEPT !.left = @ - 1]
    /\ LET sub == Len(subs) + 1
           w   == Len(workers) + 1
           d   == Classify(text)
       IN  CASE d.route = "empty" ->
                  /\ emitted' = Append(emitted,
                         Emission("failed", Msg("Empty command", <<>>), sub, FALSE))
                  /\ subs' = Append(subs, Submission(text, d, 0))
                  /\ UNCHANGED << workers, active_workers >>
             [] d.route = "unknown" ->
                  /\ emitted' = Append(emitted,
                         Emission("failed", UnknownCommandMessage(Normalize(text)), sub, FALSE))
                  /\ subs' = Append(subs, Submission(text, d, 0))
                  /\ UNCHANGED << workers, active_workers >>
             [] OTHER ->
                  /\ workers' = Append(workers, NewWorker(d.cmd_type, d.params, sub))
                  /\ active_workers' = Append(active_workers, w)
                  /\ subs' = Append(subs, Submission(text, d, w))
                  /\ UNCHANGED emitted
    /\ UNCHANGED << config, fs, procs, spawned, killed, events, pc, todo >>

\* A run() that also reports on error_occurred.
RunSignalsBoth(w, outcome) ==
    << Event("result", w, outcome.msg), Event("error", w, outcome.msg) >>

\* The signals CommandWorker.run emits once execute_command has returned.
RunSignals(w, outcome) == << Event("result", w, outcome.msg) >>

\* A worker that starts over when its handler has failed.
RanRetryOnFault(wk, fault) ==
    [wk EXCEPT !.state = IF fault THEN "running" ELSE "emitted",
               !.runs = @ + 1, !.faulted = fault]

\* The worker once run() has called execute_command and emitted: the call is
\* made once and run() returns.
Ran(wk, fault) == [wk EXCEPT !.state = "emitted", !.runs = @ + 1, !.faulted = fault]

\* Workers that run one at a time, in the order of their creation: a
\* worker's run() waits until every earlier worker has left its handler.
WorkerRunInTurn(w, fault) ==
    /\ pc # "aborted"
    /\ w \in 1..Len(workers)
    /\ workers[w].state = "running"
    /\ \A v \in 1..(w - 1) : workers[v].state # "running"
    /\ LET outcome == ExecuteCommand(workers[w].cmd_type, workers[w].params, fault)
       IN  /\ fs' = outcome.fs
           /\ spawned' = spawned \cup outcome.started
           /\ killed' = killed \o outcome.terminated
           /\ procs' = IF outcome.terminated = <<>> THEN procs
                       ELSE Remove(procs, outcome.terminated[1])
           /\ events' = events \o RunSignals(w, outcome)
    /\ workers' = [workers EXCEPT ![w] = Ran(@, fault)]
    /\ UNCHANGED << config, active_workers, emitted, subs, pc, todo, inputs >>

\* CommandWorker.run up to the emit, in the worker's thread: execute_command
\* with its side effects, then result_ready queued to the main thread.
WorkerRun(w, fault) ==
    /\ pc # "aborted"
    /\ w \in 1..Len(workers)
    /\ workers[w].state = "running"
    /\ LET outcome == ExecuteCommand(workers[w].cmd_type, workers[w].params, fault)
       IN  /\ fs' = outcome.fs
           /\ spawned' = spawned \cup outcome.started
           /\ killed' = killed \o outcome.terminated
           /\ procs' = IF outcome.terminated = <<>> THEN procs
                       ELSE Remove(procs, outcome.terminated[1])
           /\ events' = events \o RunSignals(w, outcome)
    /\ workers' = [workers EXCEPT ![w] = Ran(@, fault)]
    /\ UNCHANGED << config, active_workers, emitted, subs, pc, todo, inputs >>

\* _handle_create_file in a worker's thread up to os.path.exists: the handler
\* returns when there is no name or the path exists, else it goes on to the
\* write, which is a later step of the thread.
CreateCheck(w) ==
    /\ pc # "aborted"
    /\ w \in 1..Len(workers)
    /\ workers[w].state = "running"
    /\ workers[w].cmd_type = "create_file"
    /\ ~workers[w].checked
    /\ LET raw == FirstParam(workers[w].params) IN
       IF CreateFileName(raw) = <<>> \/ CreateFilePath(raw) \in fs
       THEN /\ events' = events \o RunSignals(w, HandleCreateFile(raw, FALSE))
            /\ workers' = [workers EXCEPT ![w] = Ran(@, FALSE)]
       ELSE /\ events' = events
            /\ workers' = [workers EXCEPT ![w].checked = TRUE, ![w].runs = @ + 1]
    /\ UNCHANGED << config, fs, procs, spawned, killed, active_workers, emitted,
                    subs, pc, todo, inputs >>

\* _handle_create_file from open(file_path, 'w') to the return, and the emit
\* of run(): the file is written whatever has happened to the path since
\* the check.
CreateWrite(w, fault) ==
    /\ pc # "aborted"
    /\ w \in 1..Len(workers)
    /\ workers[w].state = "running"
    /\ workers[w].checked
    /\ LET raw     == FirstParam(workers[w].params)
           outcome == CreateFileWrite(raw, fault)
       IN  /\ fs' = outcome.fs
           /\ events' = events \o RunSignals(w, outcome)
           /\ workers' = [workers EXCEPT
                  ![w].state = "emitted", ![w].checked = FALSE, ![w].faulted = fault,
                  ![w].overwrote = (~fault /\ CreateFilePath(raw) \in fs)]
    /\ UNCHANGED << config, procs, spawned, killed, active_workers, emitted,
                    subs, pc, todo, inputs >>

\* The worker's thread ends: QThread.finished is queued to the main thread.
WorkerFinish(w) ==
    /\ pc # "aborted"
    /\ w \in 1..Len(workers)
    /\ workers[w].state = "emitted"
    /\ workers' = [workers EXCEPT ![w].state = "finished"]
    /\ events' = Append(events, Event("finished", w, NoMsg))
    /\ UNCHANGED << config, fs, procs, spawned, killed, active_workers, emitted,
                    subs, pc, todo, inputs >>

\* CommandProcessor._on_command_result: the emissions for a delivered result.
OnCommandResult(e) ==
    << Emission("completed", e.msg, workers[e.w].sub, subs[workers[e.w].sub].cleaned) >>

\* CommandProcessor._on_command_error
OnCommandError(e) ==
    << Emission("failed", e.msg, workers[e.w].sub, subs[workers[e.w].sub].cleaned) >>

\* An _on_worker_finished that leaves the list as it is.
RemoveWorkerNot(w) == active_workers

\* `if worker in self.active_workers: self.active_workers.remove(worker)` of
\* _on_worker_finished and of cleanup(): active_workers afterwards.
RemoveWorker(w) == IF In(w, active_workers) THEN Remove(active_workers, w)
                   ELSE active_workers

\* worker.deleteLater() posts a deferred delete of the QThread object to the
\* main thread.  For a worker whose thread has ended the deletion changes
\* nothing any more (its signals were queued before), so it is recorded at
\* once; for a thread still running it stays an event of the queue.
Doomed(w, ws) == [ws EXCEPT ![w].deleted = (ws[w].state \notin {"running", "emitted"})]

DeleteEvents(w, ws) ==
    IF ws[w].state \in {"running", "emitted"} THEN <<Event("delete", w, NoMsg)>> ELSE <<>>

\* The main thread's event loop delivers the next queued signal or event.
Dispatch ==
    /\ pc = "idle"
    /\ events # <<>>
    /\ LET e == Head(events) IN
       /\ emitted' = CASE e.type = "result" -> emitted \o OnCommandResult(e)
                       [] e.type = "error"  -> emitted \o OnCommandError(e)
                       [] OTHER             -> emitted
       /\ active_workers' = IF e.type = "finished" THEN RemoveWorker(e.w)
                            ELSE active_workers
       /\ events' = IF e.type = "finished" /\ In(e.w, active_workers)
                    THEN Tail(events) \o DeleteEvents(e.w, workers)
                    ELSE Tail(events)
       \* the deferred delete destroys the QThread object; Qt aborts the
       \* process when its thread is still running
       /\ workers' = CASE e.type = "finished" /\ In(e.w, active_workers) ->
                            Doomed(e.w, workers)
                       [] e.type = "delete" -> [workers EXCEPT ![e.w].deleted = TRUE]
                       [] OTHER -> workers
       /\ pc' = IF e.type = "delete" /\ workers[e.w].state \in {"running", "emitted"}
                THEN "aborted" ELSE pc
    /\ UNCHANGED << config, fs, procs, spawned, killed, subs, todo, inputs >>

\* cleanup() entered in the main thread: the loop runs over a copy of the list.
CleanupBegin ==
    /\ pc = "idle"
    /\ pc' = "cleanup"
    /\ todo' = active_workers
    /\ workers' = [w \in 1..Len(workers) |->
                     IF In(w, active_workers) THEN [workers[w] EXCEPT !.cut = TRUE]
                     ELSE workers[w]]
    /\ UNCHANGED << config, fs, procs, spawned, killed, active_workers, events,
                    emitted, subs, inputs >>

\* The calls the loop body of cleanup() makes on a worker, in order:
\* terminate() and wait(1000) when isRunning(), then deleteLater(); a
\* terminate() that raises ends the iteration.
CleanupCalls(running, raises) ==
    IF ~running THEN <<"deleteLater">>
    ELSE IF raises THEN <<"terminate">>
    ELSE <<"terminate", "wait(1000)", "deleteLater">>

\* One iteration of the loop of cleanup() for the worker at the head of the
\* copy.  raises: terminate() raises, which skips the removal (caught and
\* logged); stops: terminate() and wait(1000) end the thread within the second.
CleanupWorker(raises, stops) ==
    /\ pc = "cleanup"
    /\ todo # <<>>
    /\ LET w       == Head(todo)
           running == workers[w].state \in {"running", "emitted"}
           called  == [workers EXCEPT ![w].calls = @ \o CleanupCalls(running, raises)]
           after   == IF running /\ stops
                      THEN [called EXCEPT ![w].state = "terminated"] ELSE called
       IN  /\ raises => running
           /\ stops => running /\ ~raises
           /\ workers' = IF raises THEN after ELSE Doomed(w, after)
           /\ active_workers' = IF raises THEN active_workers ELSE RemoveWorker(w)
           \* finished() of the terminated thread, then the deferred delete
           /\ events' = events
                          \o (IF running /\ stops THEN <<Event("finished", w, NoMsg)>>
                              ELSE <<>>)
                          \o (IF raises THEN <<>> ELSE DeleteEvents(w, after))
    /\ todo' = Tail(todo)
    /\ UNCHANGED << config, fs, procs, spawned, killed, emitted, subs, pc, inputs >>

\* A cleanup() without the final clear().
NotCleared(list) == list

\* self.active_workers.clear(): the list after the loop of cleanup().
Cleared(list) == <<>>

\* The loop of cleanup() is over: clear() and return.
CleanupEnd ==
    /\ pc = "cleanup"
    /\ todo = <<>>
    /\ active_workers' = Cleared(active_workers)
    /\ subs' = [i \in 1..Len(subs) |-> [subs[i] EXCEPT !.cleaned = TRUE]]
    /\ pc' = "idle"
    /\ UNCHANGED << config, fs, procs, spawned, killed, workers, events, emitted,
                    todo, inputs >>

\* ------------------------------------------------------- the text dialog

\* The tray icon before its first text command: text_dialog is None.
\* created: text_dialog holds a TextCommandDialog; visible: it is shown;
\* processor: its command_processor is not None; enabled: its Execute
\* button is enabled; display: what its result_display shows; timers: the
\* QTimer.singleShot(2000, self.close) still to fire; closed: a closeEvent
\* of it has run.
NoDialog ==
    [created |-> FALSE, visible |-> FALSE, processor |-> FALSE, enabled |-> FALSE,
     display |-> "", timers |-> 0, closed |-> FALSE]

\* TextCommandDialog.__init__: the dialog owns a CommandProcessor of its own.
NewDialog ==
    [created |-> TRUE, visible |-> FALSE, processor |-> TRUE, enabled |-> TRUE,
     display |-> "", timers |-> 0, closed |-> FALSE]

\* _on_text_command of the tray icon: the dialog is created when there is
\* none, else the one there is is shown again.
Shown(d) == IF ~d.created THEN [NewDialog EXCEPT !.visible = TRUE]
            ELSE [d EXCEPT !.visible = TRUE]

\* TextCommandDialog._on_command_completed
OnCommandCompleted(d) ==
    [d EXCEPT !.display = "result", !.enabled = TRUE,
              !.timers = IF Truthy(ConfigGet(<<"general", "auto_close_dialog">>, Leaf(FALSE)))
                         THEN @ + 1 ELSE @]

\* TextCommandDialog._on_command_failed
OnCommandFailed(d) == [d EXCEPT !.display = "error", !.enabled = TRUE]

\* The dialog after its slots have run for the emissions of log, in order
\* (command_completed and command_failed are connected directly: the slot
\* runs inside the emit).
RECURSIVE Delivered(_, _)
Delivered(d, log) ==
    IF log = <<>> THEN d
    ELSE Delivered(IF Head(log).chan = "completed" THEN OnCommandCompleted(d)
                   ELSE OnCommandFailed(d),
                   Tail(log))

\* The emissions of the step.
NewEmissions == SubSeq(emitted', Len(emitted) + 1, Len(emitted'))

\* The triggers of _execute_command: execute_button.clicked, which a
\* disabled button does not emit, and command_input.returnPressed.
Triggers == {"clicked", "returnPressed"}

\* The trigger can fire: the dialog is shown, and a click needs the button
\* enabled; the line edit stays enabled all the time.
Trigger(by) == by = "clicked" => dialog.enabled

\* TextCommandDialog._execute_command with the text of command_input.
DialogExecute(text, by) ==
    /\ pc = "idle"
    /\ dialog.visible
    /\ Trigger(by)
    /\ LET command == Strip(text) IN
       IF command = <<>>
       THEN /\ dialog' = [dialog EXCEPT !.display = "Please enter a command."]
            /\ UNCHANGED core
       ELSE IF ~dialog.processor
       THEN /\ dialog' = [dialog EXCEPT !.display = "Error: Command processor not available. Please reopen the dialog."]
            /\ UNCHANGED core
       ELSE /\ ProcessCommand(command)
            /\ dialog' = Delivered([dialog EXCEPT !.enabled = FALSE,
                                                  !.display = "Executing command..."],
                                   NewEmissions)
    /\ UNCHANGED << voice, answer >>

\* The event loop delivers a queued signal of a worker; the dialog's slots
\* run for what the processor emits.
DialogDispatch ==
    /\ Dispatch
    /\ dialog' = Delivered(dialog, NewEmissions)
    /\ UNCHANGED << voice, answer >>

\* A dialog whose cleanup() keeps its processor.
DialogCleanedKeep(d) == [d EXCEPT !.visible = FALSE, !.closed = TRUE]

\* The dialog once command_processor.cleanup() has returned inside
\* closeEvent: cleanup() sets command_processor to None and
\* QDialog.closeEvent hides the dialog.
DialogCleaned(d) == [d EXCEPT !.processor = FALSE, !.visible = FALSE, !.closed = TRUE]

\* self.close(): the Cancel button, the Escape key or the window's close
\* button ("user") or a timer of _on_command_completed ("timer"); closeEvent
\* calls cleanup(), which enters command_processor.cleanup() when there is
\* a processor.
DialogClose(by) ==
    /\ pc = "idle"
    /\ dialog.created
    /\ IF by = "user" THEN dialog.visible ELSE dialog.timers > 0
    /\ LET d == IF by = "user" THEN dialog ELSE [dialog EXCEPT !.timers = @ - 1] IN
       IF dialog.processor
       THEN CleanupBegin /\ dialog' = d
       ELSE dialog' = DialogCleaned(d) /\ UNCHANGED core
    /\ UNCHANGED << voice, answer >>

\* command_processor.cleanup() returns to the dialog's cleanup().
DialogCloseEnd ==
    /\ CleanupEnd
    /\ dialog' = DialogCleaned(dialog)
    /\ UNCHANGED << voice, answer >>

\* The user asks for the text dialog (menu entry, tray click or hotkey).
OnTextCommand ==
    /\ pc = "idle"
    /\ dialog' = Shown(dialog)
    /\ UNCHANGED core
    /\ UNCHANGED << voice, answer >>

\* ---------------------------------------------------- the voice handler

\* The number of start_listening calls of a run.
MaxSessions == 2

\* VoiceCommandHandler.__init__ with a recognizer and a microphone.
\* threads: the threads started so far, each with the session that started
\* it and its place in _listen_for_command ("listen", "recognize", "finally"
\* or "done"); signals: the signals emitted so far, in order; sessions: the
\* number of listening_started so far; stopped: the sessions that
\* stop_listening has ended.
NewVoice ==
    [is_listening |-> FALSE, threads |-> <<>>, signals |-> <<>>, sessions |-> 0,
     starts |-> 0, stopped |-> {}]

\* One emitted signal: its name, the session it belongs to and whether
\* stop_listening had ended that session before.
Signal(name, session) ==
    [name |-> name, session |-> session, after_stop |-> session \in voice.stopped]

\* VoiceCommandHandler.start_listening; fault: Thread.start() raises.
StartListening(fault) ==
    /\ voice.starts < MaxSessions
    /\ LET n == voice.sessions + 1 IN
       voice' =
         IF voice.is_listening THEN [voice EXCEPT !.starts = @ + 1]
         ELSE IF fault
         THEN [voice EXCEPT !.starts = @ + 1, !.sessions = n, !.is_listening = FALSE,
                            !.signals = @ \o << Signal("listening_started", n),
                                                Signal("recognition_failed", n) >>]
         ELSE [voice EXCEPT !.starts = @ + 1, !.sessions = n, !.is_listening = TRUE,
                            !.signals = Append(@, Signal("listening_started", n)),
                            !.threads = Append(@, [session |-> n, at |-> "listen"])]
    /\ UNCHANGED core
    /\ UNCHANGED << dialog, answer >>

\* VoiceCommandHandler.stop_listening while listening (it returns at once
\* otherwise); raises: recognizer.operation_cancel() raises, which skips
\* the emit.  The listening thread is neither stopped nor joined.
StopListening(raises) ==
    /\ voice.is_listening
    /\ voice' = [voice EXCEPT
                   !.is_listening = FALSE,
                   !.stopped = @ \cup {voice.sessions},
                   !.signals = IF raises THEN @
                               ELSE Append(@, [name |-> "listening_stopped",
                                               session |-> voice.sessions,
                                               after_stop |-> FALSE])]
    /\ UNCHANGED core
    /\ UNCHANGED << dialog, answer >>

\* recognizer.listen of thread t returns audio ("audio") or raises
\* WaitTimeoutError ("timeout") or another exception ("error"); the thread
\* reads is_listening, whichever session has set it.
ThreadListen(t, outcome) ==
    /\ t \in 1..Len(voice.threads)
    /\ voice.threads[t].at = "listen"
    /\ voice' =
         IF outcome = "audio"
         THEN [voice EXCEPT !.threads[t].at =
                              IF voice.is_listening THEN "recognize" ELSE "finally"]
         ELSE [voice EXCEPT !.threads[t].at = "finally",
                            !.signals = IF voice.is_listening
                                        THEN Append(@, Signal("recognition_failed",
                                                              voice.threads[t].session))
                                        ELSE @]
    /\ UNCHANGED core
    /\ UNCHANGED << dialog, answer >>

\* _recognize_speech of thread t returns a command (heard) or None, and
\* `if command and self.is_listening` decides the emit.
ThreadRecognize(t, heard) ==
    /\ t \in 1..Len(voice.threads)
    /\ voice.threads[t].at = "recognize"
    /\ voice' = [voice EXCEPT
                   !.threads[t].at = "finally",
                   !.signals = IF heard /\ voice.is_listening
                               THEN Append(@, Signal("command_recognized",
                                                     voice.threads[t].session))
                               ELSE @]
    /\ UNCHANGED core
    /\ UNCHANGED << dialog, answer >>

\* The finally clause of _listen_for_command in thread t.
ThreadFinally(t) ==
    /\ t \in 1..Len(voice.threads)
    /\ voice.threads[t].at = "finally"
    /\ voice' = [voice EXCEPT
                   !.threads[t].at = "done",
                   !.is_listening = FALSE,
                   !.signals = Append(@, Signal("listening_stopped",
                                                voice.threads[t].session))]
    /\ UNCHANGED core
    /\ UNCHANGED << dialog, answer >>

\* --------------------------------------------------- ConfigManager.set

\* The answer kept of the last ConfigManager call: the operation, the keys
\* of its path, the value or default given, whether set returned True (for
\* get: whether the path was found), the value get returned and the
\* configuration before the call.
NoAnswer ==
    [op |-> "none", keys |-> <<>>, value |-> Leaf(FALSE), ok |-> FALSE,
     result |-> Leaf(FALSE), before |-> Dict(<<>>)]

\* d[key] = v on the items of a dict.
Assigned(items, key, v) ==
    [k \in (DOMAIN items) \cup {key} |-> IF k = key THEN v ELSE items[k]]

\* A set that puts the value into a dict of its own instead of the parent.
RECURSIVE ConfigSetReplacing(_, _, _)
ConfigSetReplacing(value, keys, v) ==
    IF ~value.isdict THEN [ok |-> FALSE, value |-> value]
    ELSE IF Len(keys) = 1
    THEN [ok |-> TRUE, value |-> Dict(Assigned(<<>>, keys[1], v))]
    ELSE LET child == IF Head(keys) \in DOMAIN value.items THEN value.items[Head(keys)]
                      ELSE Dict(<<>>)
             r     == ConfigSetReplacing(child, Tail(keys), v)
         IN  [ok |-> r.ok, value |-> Dict(Assigned(value.items, Head(keys), r.value))]

\* The body of ConfigManager.set from `config` on, keys being the rest of
\* key_path.split('.'): a key missing on the way gets an empty dict, which
\* stays there whatever happens later; `key not in config`, the item
\* assignment or the subscript raises on a value that is no dict, and set
\* returns False.  The object is changed in place: value is what it holds
\* afterwards.
RECURSIVE ConfigSet(_, _, _)
ConfigSet(value, keys, v) ==
    IF ~value.isdict THEN [ok |-> FALSE, value |-> value]
    ELSE IF Len(keys) = 1
    THEN [ok |-> TRUE, value |-> Dict(Assigned(value.items, keys[1], v))]
    ELSE LET child == IF Head(keys) \in DOMAIN value.items THEN value.items[Head(keys)]
                      ELSE Dict(<<>>)
             r     == ConfigSet(child, Tail(keys), v)
         IN  [ok |-> r.ok, value |-> Dict(Assigned(value.items, Head(keys), r.value))]

\* config_manager.set(key_path, value)
ConfigSetCall(keys, v) ==
    /\ config' = ConfigSet(config, keys, v).value
    /\ answer' = [op |-> "set", keys |-> keys, value |-> v,
                ok |-> ConfigSet(config, keys, v).ok, result |-> Leaf(FALSE),
                before |-> config]
    /\ UNCHANGED << fs, procs, spawned, killed, workers, active_workers,
                    events, emitted, subs, pc, todo, inputs, dialog, voice >>

\* config_manager.get(key_path, default)
ConfigGetCall(keys, default) ==
    /\ answer' = [op |-> "get", keys |-> keys, value |-> default,
                ok |-> ConfigWalk(config, keys).found,
                result |-> ConfigGet(keys, default), before |-> config]
    /\ UNCHANGED core
    /\ UNCHANGED << dialog, voice >>

\* ---------------------------------------------------------- specifications

\* The texts submitted to the dispatcher: whitespace only, an unknown
\* command that has a suggestion, an informational query.
DispatchTexts ==
    { <<" ", "\t">>,
      <<"opn", " ", "firefox">>,
      <<"Time", " ">> }

\* The texts of the single submissions: blank, unknown, and for every
\* pattern of the registry a text written to match it, with variants, among
\* them texts that hold a line break.
SingleTexts ==
    { <<>>, <<" ">>, <<" ", "\t">>,
      <<"frobnicate">>, <<"opn", " ", "firefox">>, <<"tim">>, <<"http://">>,
      <<"open", " ", "firefox">>, <<"OPEN", " ", " ", "Firefox">>,
      <<"open", " ", "htop">>, <<"open", " ", "nothing">>,
      <<"close", " ", "firefox">>, <<"close", " ", "nothing">>,
      <<"shutdown">>, <<"SHUTDOWN">>, <<"restart">>, <<"reboot">>,
      <<"lock">>, <<"logout">>,
      <<"volume", " ", "up">>, <<"volume", " ", "down">>,
      <<"volume", " ", "mute">>, <<"volume", " ", "unmute">>,
      <<"open", " ", "file", " ", "/tmp/x">>,
      <<"create", " ", "file", " ", "notes.txt">>,
      <<"create", " ", "file", " ", "/tmp/y">>,
      <<"delete", " ", "file", " ", "/tmp/x">>,
      <<"delete", " ", "file", " ", "/tmp/y">>,
      <<"delete", " ", "file", " ", "\"", "/tmp/X", "\"">>,
      <<"delete", " ", "file", " ", "~/notes.txt">>,
      <<"delete", " ", "file", " ", "'">>,
      <<"search", " ", "notes">>, <<"search", " ", "python">>,
      <<"open", " ", "website", " ", "example.com">>,
      <<"open", " ", "website", " ", "https://example.com">>,
      <<"http://example.com">>, <<"HTTP://Example.com">>,
      <<"time">>, <<"date">>, <<"cpu", " ", "usage">>, <<"memory", " ", "usage">>,
      <<"disk", " ", "usage">>, <<"system", " ", "info">>,
      <<"weather">>, <<"help">>, <<"?">>, <<"version">>,
      <<"open", " ", "file", "\n", "/tmp/x">>,
      <<"open", "\n", "file", " ", "/tmp/x">>,
      <<"open", " ", "website", " ", "\n", "example.com">>,
      <<"open", " ", "firefox", "\n", "x">>,
      <<"volume", "\n", "up">>, <<"search", "\n", "python">> }

\* The texts of concurrent file creations: a path that is free at the start
\* and a name that exists under the home directory.
CreateTexts ==
    { <<"create", " ", "file", " ", "/tmp/y">>,
      <<"create", " ", "file", " ", "notes.txt">> }

\* The texts of commands submitted back-to-back: a text that two patterns
\* match, two spellings of one command, an unknown command.
RunTexts ==
    { <<"search", " ", "python">>,
      <<"Time", " ">>, <<"time">>,
      <<"opn", " ", "firefox">> }

\* The texts typed into the dialog's command_input: blanks only, a command
\* after a blank, an unknown command.
DialogTexts ==
    { <<" ">>, <<" ", "time">>, <<"opn", " ", "firefox">> }

\* The texts the callers of a run may submit, by the name in inputs.texts.
TextsOf(name) ==
    CASE name = "dispatch" -> DispatchTexts
      [] name = "create"   -> CreateTexts
      [] name = "run"      -> RunTexts
      [] name = "dialog"   -> DialogTexts
      [] OTHER             -> SingleTexts

\* The disk and the process table at the start.
InitialFiles == { <<"/tmp/x">>, <<"/home/user/notes.txt">> }

InitialProcs == << <<"firefox-bin">>, <<"firefox">>, <<"gnome-terminal-server">> >>

\* The state after CommandProcessor.__init__, before any submission.
InitCommon ==
    /\ procs = InitialProcs
    /\ spawned = {}
    /\ killed = <<>>
    /\ workers = <<>>
    /\ active_workers = <<>>
    /\ events = <<>>
    /\ emitted = <<>>
    /\ subs = <<>>
    /\ pc = "idle"
    /\ todo = <<>>
    /\ dialog = NoDialog
    /\ voice = NewVoice
    /\ answer = NoAnswer

\* The dispatcher under the default configuration, MaxCommands submissions.
Init ==
    /\ InitCommon
    /\ config = DefaultConfig
    /\ fs = InitialFiles
    /\ inputs = [texts |-> "dispatch", faults |-> {FALSE}, disk |-> InitialFiles,
                 left |-> MaxCommands, denied |-> {}, call |-> NoCall, caller |-> "main"]

Next ==
    \/ \E text \in TextsOf(inputs.texts) : ProcessCommand(text) /\ UNCHANGED shell
    \/ \E w \in 1..Len(workers), fault \in inputs.faults : WorkerRun(w, fault) /\ UNCHANGED shell
    \/ \E w \in 1..Len(workers) : WorkerFinish(w) /\ UNCHANGED shell
    \/ Dispatch /\ UNCHANGED shell
    \/ CleanupBegin /\ UNCHANGED shell
    \/ \E raises, stops \in BOOLEAN : CleanupWorker(raises, stops) /\ UNCHANGED shell
    \/ CleanupEnd /\ UNCHANGED shell

Spec == Init /\ [][Next]_vars

\* One submission, end to end, for every text of SingleTexts, every
\* configuration of the gate and every disk.
\* The configurations: the default, the gate switched off, the key missing,
\* the section missing.
Configs ==
    { DefaultConfig,
      Dict([commands |-> Dict([confirm_dangerous |-> Leaf(FALSE),
                               show_feedback     |-> Leaf(TRUE)])]),
      Dict([commands |-> Dict([show_feedback |-> Leaf(TRUE)])]),
      Dict([general |-> Dict([show_feedback |-> Leaf(TRUE)])]) }

InitSingle ==
    /\ InitCommon
    /\ config \in Configs
    /\ fs \in SUBSET InitialFiles
    /\ inputs = [texts |-> "single", faults |-> BOOLEAN, disk |-> fs, left |-> 1,
                 denied |-> {}, call |-> NoCall, caller |-> "main"]

SpecSingle == InitSingle /\ [][Next]_vars

\* Concurrent 'create file' commands: MaxCommands submissions whose workers
\* run side by side, each handler in two steps (the check, then the write),
\* so that the steps of one can fall between the steps of another.  (In Spec
\* and SpecSingle no two handlers touch the disk at the same time and
\* WorkerRun takes a handler as one step.)
InitCreate ==
    /\ InitCommon
    /\ config = DefaultConfig
    /\ fs = InitialFiles
    /\ inputs = [texts |-> "create", faults |-> BOOLEAN, disk |-> InitialFiles,
                 left |-> MaxCommands, denied |-> {}, call |-> NoCall, caller |-> "main"]

NextCreate ==
    \/ \E text \in TextsOf(inputs.texts) : ProcessCommand(text) /\ UNCHANGED shell
    \/ \E w \in 1..Len(workers) : CreateCheck(w) /\ UNCHANGED shell
    \/ \E w \in 1..Len(workers), fault \in inputs.faults : CreateWrite(w, fault) /\ UNCHANGED shell
    \/ \E w \in 1..Len(workers) : WorkerFinish(w) /\ UNCHANGED shell
    \/ Dispatch /\ UNCHANGED shell

SpecCreate == InitCreate /\ [][NextCreate]_vars

\* Commands submitted back-to-back and run to completion, no cleanup():
\* MaxCommands submissions, whose workers run side by side.
InitRun ==
    /\ InitCommon
    /\ config = DefaultConfig
    /\ fs = InitialFiles
    /\ inputs = [texts |-> "run", faults |-> {FALSE}, disk |-> InitialFiles,
                 left |-> MaxCommands, denied |-> {}, call |-> NoCall, caller |-> "main"]

NextRun ==
    \/ \E text \in TextsOf(inputs.texts) : ProcessCommand(text) /\ UNCHANGED shell
    \/ \E w \in 1..Len(workers), fault \in inputs.faults : WorkerRun(w, fault) /\ UNCHANGED shell
    \/ \E w \in 1..Len(workers) : WorkerFinish(w) /\ UNCHANGED shell
    \/ Dispatch /\ UNCHANGED shell

SpecRun == InitRun /\ [][NextRun]_vars

\* TaskHandler.execute_command called directly with the call of
\* inputs.call: the handler acts on the world and its return value is recorded
\* (as an emission on the channel "returned" that answers no submission).
ExecuteDirect(fault) ==
    /\ inputs.call # NoCall
    /\ inputs.left > 0
    /\ inputs' = [inputs EXCEPT !.left = @ - 1]
    /\ LET outcome == ExecuteCommand(inputs.call.cmd_type, inputs.call.params, fault)
       IN  /\ fs' = outcome.fs
           /\ spawned' = spawned \cup outcome.started
           /\ killed' = killed \o outcome.terminated
           /\ procs' = IF outcome.terminated = <<>> THEN procs
                       ELSE Remove(procs, outcome.terminated[1])
           /\ emitted' = Append(emitted, Emission("returned", outcome.msg, 0, FALSE))
    /\ UNCHANGED << config, workers, active_workers, events, subs, pc, todo >>

\* The direct calls: close an application (several processes match, one
\* matches, none matches, no name), search files, open a website (no
\* scheme, either scheme, capitals, surrounding blanks, nothing).
HandlerCalls ==
    { Call("close_app", << <<"firefox">> >>),
      Call("close_app", << <<"Terminal">> >>),
      Call("close_app", << <<"nothing">> >>),
      Call("close_app", << <<" ">> >>),
      Call("search_files", << <<"txt">> >>),
      Call("search_files", << <<"notes">> >>),
      Call("search_files", << <<"'", "txt", "'">> >>),
      Call("search_files", << <<>> >>),
      Call("open_website", << <<"example.com">> >>),
      Call("open_website", << <<" ", "example.com", " ">> >>),
      Call("open_website", << <<"http://example.com">> >>),
      Call("open_website", << <<"https://example.com">> >>),
      Call("open_website", << <<" ", "https://example.com">> >>),
      Call("open_website", << <<"HTTP://Example.com">> >>),
      Call("open_website", << <<" ">> >>) }

\* The disks of the direct calls: the files of InitialFiles and the first n
\* of HomeTextFiles.
HandlerDisks ==
    { InitialFiles \cup {HomeTextFiles[i] : i \in 1..n} : n \in 0..Len(HomeTextFiles) }

\* The sets of processes that cannot be terminated.
DeniedSets == SUBSET {<<"firefox-bin">>, <<"firefox">>}

InitHandler ==
    /\ InitCommon
    /\ config = DefaultConfig
    /\ fs \in HandlerDisks
    /\ inputs \in [texts : {"none"}, faults : {BOOLEAN}, disk : {fs}, left : {1},
                    denied : DeniedSets, call : HandlerCalls, caller : {"main"}]

NextHandler == \E fault \in inputs.faults : ExecuteDirect(fault) /\ UNCHANGED shell

SpecHandler == InitHandler /\ [][NextHandler]_vars

\* SpecRun with the main thread's event loop running: a queued signal is
\* delivered in the end (Qt's event loop takes the events of its queue in
\* order and none of the slots blocks).
SpecRunFair == SpecRun /\ WF_vars(Dispatch /\ UNCHANGED shell)

\* The dispatcher with its submissions made from a thread other than the
\* main thread, which runs the event loop and cleanup().
InitThreads ==
    /\ InitCommon
    /\ config = DefaultConfig
    /\ fs = InitialFiles
    /\ inputs = [texts |-> "dispatch", faults |-> {FALSE}, disk |-> InitialFiles,
                 left |-> MaxCommands, denied |-> {}, call |-> NoCall,
                 caller |-> "thread"]

SpecThreads == InitThreads /\ [][Next]_vars

\* The text dialog of the tray icon: the user opens it, types, triggers
\* _execute_command and closes it, while the workers of its processor run;
\* MaxCommands submissions reach the processor.  The configurations: the
\* default, and general.auto_close_dialog switched on.
DialogConfigs ==
    { DefaultConfig,
      ConfigSet(DefaultConfig, <<"general", "auto_close_dialog">>, Leaf(TRUE)).value }

InitDialog ==
    /\ InitCommon
    /\ config \in DialogConfigs
    /\ fs = InitialFiles
    /\ inputs = [texts |-> "dialog", faults |-> {FALSE}, disk |-> InitialFiles,
                 left |-> MaxCommands, denied |-> {}, call |-> NoCall, caller |-> "main"]

NextDialog ==
    \/ OnTextCommand
    \/ \E text \in TextsOf(inputs.texts), by \in Triggers : DialogExecute(text, by)
    \/ \E by \in {"user", "timer"} : DialogClose(by)
    \/ \E raises, stops \in BOOLEAN : CleanupWorker(raises, stops) /\ UNCHANGED shell
    \/ DialogCloseEnd
    \/ \E w \in 1..Len(workers), fault \in inputs.faults : WorkerRun(w, fault) /\ UNCHANGED shell
    \/ \E w \in 1..Len(workers) : WorkerFinish(w) /\ UNCHANGED shell
    \/ DialogDispatch

SpecDialog == InitDialog /\ [][NextDialog]_vars

\* The number of submissions of a dialog that is closed and shown again.
MaxReopenCommands == 1

\* The text dialog closed and shown again, at any time before, during or
\* after its MaxReopenCommands submissions.
InitReopen ==
    /\ InitCommon
    /\ config \in DialogConfigs
    /\ fs = InitialFiles
    /\ inputs = [texts |-> "dialog", faults |-> {FALSE}, disk |-> InitialFiles,
                 left |-> MaxReopenCommands, denied |-> {}, call |-> NoCall,
                 caller |-> "main"]

SpecReopen == InitReopen /\ [][NextDialog]_vars

\* The voice handler: MaxSessions calls of start_listening, stop_listening
\* at any time, the listening threads at their own pace.
InitVoice ==
    /\ InitCommon
    /\ config = DefaultConfig
    /\ fs = InitialFiles
    /\ inputs = [texts |-> "none", faults |-> BOOLEAN, disk |-> InitialFiles,
                 left |-> 0, denied |-> {}, call |-> NoCall, caller |-> "main"]

NextVoice ==
    \/ \E fault \in inputs.faults : StartListening(fault)
    \/ \E raises \in BOOLEAN : StopListening(raises)
    \/ \E t \in 1..Len(voice.threads), outcome \in {"audio", "timeout", "error"} :
           ThreadListen(t, outcome)
    \/ \E t \in 1..Len(voice.threads), heard \in BOOLEAN : ThreadRecognize(t, heard)
    \/ \E t \in 1..Len(voice.threads) : ThreadFinally(t)

SpecVoice == InitVoice /\ [][NextVoice]_vars

\* ConfigManager.set and get called with the paths of ConfigPaths and the
\* values of ConfigValues, starting from the configurations of Configs.
\* The paths: a section, a key of it, a path through that key, a key of a
\* section that may be missing, a path with two keys that may be missing.
ConfigPaths ==
    { <<"commands">>,
      <<"commands", "confirm_dangerous">>,
      <<"commands", "confirm_dangerous", "level">>,
      <<"general", "show_feedback">>,
      <<"voice", "input", "timeout">> }

ConfigValues == { Leaf(TRUE), Leaf(FALSE), Dict(<<>>) }

InitConfig ==
    /\ InitCommon
    /\ config \in Configs
    /\ fs = InitialFiles
    /\ inputs = [texts |-> "none", faults |-> {FALSE}, disk |-> InitialFiles,
                 left |-> 0, denied |-> {}, call |-> NoCall, caller |-> "main"]

NextConfig ==
    \/ \E keys \in ConfigPaths, v \in ConfigValues : ConfigSetCall(keys, v)
    \/ \E keys \in ConfigPaths, default \in ConfigValues : ConfigGetCall(keys, default)

SpecConfig == InitConfig /\ [][NextConfig]_vars

\* ------------------------------------------------------------------ claims

\* The number of emissions that answer submission s.
RECURSIVE CountFor(_, _)
CountFor(s, log) ==
    IF log = <<>> THEN 0
    ELSE (IF Head(log).sub = s THEN 1 ELSE 0) + CountFor(s, Tail(log))

\* Nothing of submission s is still under way: it had no worker, or its
\* worker's thread has ended and its result signal has been delivered.
Settled(s) ==
    \/ subs[s].worker = 0
    \/ /\ workers[subs[s].worker].state = "finished"
       /\ \A i \in 1..Len(events) :
             ~(events[i].w = subs[s].worker /\ events[i].type \in {"result", "error"})

\* cleanup() was called while the worker of submission s was outstanding.
CutOff(s) == subs[s].worker # 0 /\ workers[subs[s].worker].cut

\* C1: every submission gets at most one completion signal over both
\* channels, and a submission that has run to its end without a cleanup()
\* cutting it off has got exactly one.
C1_ExactlyOneSignal ==
    \A s \in 1..Len(subs) :
        /\ CountFor(s, emitted) <= 1
        /\ (Settled(s) /\ ~CutOff(s)) => CountFor(s, emitted) = 1

\* Two submissions, both answered once: one by its worker on
\* command_completed, one at once on command_failed.
C1_Witness ==
    /\ Len(subs) = 2
    /\ \E s \in 1..2 : subs[s].worker # 0 /\ Settled(s) /\ ~CutOff(s)
                         /\ \E i \in 1..Len(emitted) :
                               emitted[i].sub = s /\ emitted[i].chan = "completed"
    /\ \E s \in 1..2 : subs[s].worker = 0 /\ CountFor(s, emitted) = 1

\* The messages with which a handler reports that it failed: an unexpected
\* fault, a target that was not found, a collection error of a query.
FailureKinds ==
    { "Failed to open {}: {e}", "Failed to close {}: {e}", "Failed to execute {}: {e}",
      "Failed to control volume: {e}", "Failed to open file: {e}",
      "Failed to create file: {e}", "Failed to delete file: {e}",
      "Failed to search files: {e}", "Failed to perform web search: {e}",
      "Failed to open website: {e}",
      "File not found: {}", "Application '{}' not found. Available apps: {}",
      "Application '{}' is not running",
      "Error getting time: {e}", "Error getting date: {e}",
      "Error getting CPU usage: {e}", "Error getting memory usage: {e}",
      "Error getting disk usage: {e}", "Error getting system info: {e}" }

\* C2: a handler's failure is reported on command_failed, never on
\* command_completed.
C2_FailureOnFailedChannel ==
    \A i \in 1..Len(emitted) :
        emitted[i].msg.kind \in FailureKinds => emitted[i].chan = "failed"

\* The commands behind the dangerous-action gate, as a worker holds them.
Dangerous(wk) ==
    \/ /\ wk.cmd_type = "system_control"
       /\ Strip(Lower(FirstParam(wk.params))) \in
             {<<"shutdown">>, <<"restart">>, <<"reboot">>}
    \/ wk.cmd_type = "delete_file"

\* C3: with commands.confirm_dangerous true, the step in which a worker
\* executes shutdown, restart, reboot or delete file starts no subprocess,
\* removes no file and terminates no process.
C3_GateNoSideEffect ==
    [][ \A w \in 1..Len(workers) :
          ( /\ ConfirmDangerous
            /\ Dangerous(workers[w])
            /\ workers[w].state = "running"
            /\ workers'[w].state = "emitted" )
          => /\ fs' = fs
             /\ spawned' = spawned
             /\ killed' = killed
             /\ procs' = procs ]_vars

\* The gate is on and a deletion of a file that exists has been executed,
\* and so has a shutdown.
C3_Witness ==
    /\ ConfirmDangerous
    /\ \E w \in 1..Len(workers) :
          /\ workers[w].state \in {"emitted", "finished"}
          /\ \/ /\ workers[w].cmd_type = "delete_file"
                /\ ExpandUser(StripQuotes(Strip(FirstParam(workers[w].params)))) \in fs
                /\ fs # {}
             \/ /\ workers[w].cmd_type = "system_control"
                /\ FirstParam(workers[w].params) = <<"reboot">>

\* The texts 'shutdown' and 'delete file x', as submitted; x is not empty
\* when something is left of it without its quotes.
IsShutdownText(text) == Normalize(text) = <<"shutdown">>

IsDeleteText(text) == PatternMatch("delete_file", Normalize(text)).matched

IsDeleteOfPath(text) ==
    /\ IsDeleteText(text)
    /\ StripQuotes(Strip(
          FirstParam(PatternMatch("delete_file", Normalize(text)).groups))) # <<>>

\* The path _handle_delete_file resolves from the text 'delete file x'.
DeletePath(text) ==
    ExpandUser(StripQuotes(Strip(
        FirstParam(PatternMatch("delete_file", Normalize(text)).groups))))

ConfirmationKinds ==
    { "Shutdown command requires confirmation in settings",
      "File deletion requires confirmation in settings" }

\* Nothing on disk or among the processes differs from the start.
WorldUnchanged ==
    fs = inputs.disk /\ spawned = {} /\ killed = <<>> /\ procs = InitialProcs

\* C4 as stated: with the gate on, 'shutdown' and 'delete file x' are
\* answered by the confirmation-required message whether or not x exists,
\* and nothing has changed.
C4_AsStated ==
    ConfirmDangerous =>
        /\ \A s \in 1..Len(subs) :
              (IsShutdownText(subs[s].text) \/ IsDeleteOfPath(subs[s].text))
                 => WorldUnchanged
        /\ \A i \in 1..Len(emitted) :
              LET text == subs[emitted[i].sub].text IN
              (IsShutdownText(text) \/ IsDeleteOfPath(text))
                 => emitted[i].msg.kind \in ConfirmationKinds

\* C4 amended: with the gate on, 'shutdown' is answered by the
\* confirmation-required message; 'delete file x' is answered by it when the
\* path resolved from x exists, by file-not-found when it does not, by
\* the request for a path when nothing is left of x; nothing has changed.
C4_ConfirmationWhenTargetExists ==
    ConfirmDangerous =>
        /\ \A s \in 1..Len(subs) :
              (IsShutdownText(subs[s].text) \/ IsDeleteText(subs[s].text))
                 => WorldUnchanged
        /\ \A i \in 1..Len(emitted) :
              LET text == subs[emitted[i].sub].text
                  kind == emitted[i].msg.kind
              IN  /\ IsShutdownText(text) =>
                        kind = "Shutdown command requires confirmation in settings"
                  /\ IsDeleteText(text) =>
                        kind = (CASE DeletePath(text) \in inputs.disk ->
                                        "File deletion requires confirmation in settings"
                                  [] DeletePath(text) = <<>> -> "Please specify a file path"
                                  [] OTHER -> "File not found: {}")

\* The gate is on, and the answer to a deletion of a file that exists,
\* given in capitals and quotes, has been delivered.
C4_Witness ==
    /\ ConfirmDangerous
    /\ \E i \in 1..Len(emitted) :
          /\ subs[emitted[i].sub].text = <<"delete", " ", "file", " ", "\"", "/tmp/X", "\"">>
          /\ DeletePath(subs[emitted[i].sub].text) \in fs
          /\ emitted[i].msg.kind = "File deletion requires confirmation in settings"

\* The positions of the registry whose pattern matches s.
Matching(s) == { i \in 1..Len(PatternOrder) : PatternMatch(PatternOrder[i], s).matched }

\* The least element of a non-empty set of numbers.
Least(S) == CHOOSE i \in S : \A j \in S : i <= j

\* C5: the classifier returns the first pattern in registration order that
\* matches: of two matching patterns the one registered earlier, so that
\* 'search python' is search_files and never web_search.
C5_FirstMatchWins ==
    \A s \in 1..Len(subs) :
        LET text == Normalize(subs[s].text) IN
        /\ Matching(text) # {} =>
              /\ subs[s].cmd_type = PatternOrder[Least(Matching(text))]
              /\ \A j \in Matching(text) :
                    j > Least(Matching(text)) => subs[s].cmd_type # PatternOrder[j]
        /\ text = <<"search", " ", "python">> => subs[s].cmd_type = "search_files"

\* 'search python', which search_files and web_search both match, has been
\* classified.
C5_Witness ==
    \E s \in 1..Len(subs) :
        /\ subs[s].text = <<"search", " ", "python">>
        /\ Cardinality(Matching(Normalize(subs[s].text))) = 2
        /\ subs[s].cmd_type = "search_files"

\* The canonical example of a registered intent, with the params it is
\* expected to capture: 'open file <path>', 'open website <url>',
\* 'search <query>' and the four volume commands for the intents of these
\* names, and one text for each other pattern.  (search_files and volume have
\* no example of their own: theirs are those of web_search and volume_*.)
Canonical ==
    { [text |-> <<"open", " ", "firefox">>, intent |-> "open_app", params |-> << <<"firefox">> >>],
      [text |-> <<"close", " ", "firefox">>, intent |-> "close_app", params |-> << <<"firefox">> >>],
      [text |-> <<"shutdown">>, intent |-> "system_control", params |-> << <<"shutdown">> >>],
      [text |-> <<"open", " ", "file", " ", "/tmp/x">>, intent |-> "open_file", params |-> << <<"/tmp/x">> >>],
      [text |-> <<"create", " ", "file", " ", "notes.txt">>, intent |-> "create_file", params |-> << <<"notes.txt">> >>],
      [text |-> <<"delete", " ", "file", " ", "/tmp/x">>, intent |-> "delete_file", params |-> << <<"/tmp/x">> >>],
      [text |-> <<"search", " ", "python">>, intent |-> "web_search", params |-> << <<"python">> >>],
      [text |-> <<"open", " ", "website", " ", "example.com">>, intent |-> "open_website", params |-> << <<"example.com">> >>],
      [text |-> <<"http://example.com">>, intent |-> "open_url", params |-> <<>>],
      [text |-> <<"time">>, intent |-> "time", params |-> <<>>],
      [text |-> <<"date">>, intent |-> "date", params |-> <<>>],
      [text |-> <<"cpu", " ", "usage">>, intent |-> "cpu_usage", params |-> <<>>],
      [text |-> <<"memory", " ", "usage">>, intent |-> "memory_usage", params |-> <<>>],
      [text |-> <<"disk", " ", "usage">>, intent |-> "disk_usage", params |-> <<>>],
      [text |-> <<"system", " ", "info">>, intent |-> "system_info", params |-> <<>>],
      [text |-> <<"weather">>, intent |-> "weather", params |-> <<>>],
      [text |-> <<"help">>, intent |-> "help", params |-> << <<"help">> >>],
      [text |-> <<"version">>, intent |-> "version", params |-> <<>>],
      [text |-> <<"volume", " ", "up">>, intent |-> "volume_up", params |-> <<>>],
      [text |-> <<"volume", " ", "down">>, intent |-> "volume_down", params |-> <<>>],
      [text |-> <<"volume", " ", "mute">>, intent |-> "volume_mute", params |-> <<>>],
      [text |-> <<"volume", " ", "unmute">>, intent |-> "volume_unmute", params |-> <<>>] }

\* C6: a text that is the canonical example of a registered intent is
\* classified to that intent with the expected params.
C6_CanonicalExamplesClassify ==
    \A s \in 1..Len(subs) :
        \A c \in Canonical :
            subs[s].text = c.text
               => subs[s].cmd_type = c.intent /\ subs[s].params = c.params

\* The step is a process_command call: one more submission is on record.
Submitted == Len(subs') = Len(subs) + 1

\* Texts that are empty once trimmed.
BlankTexts == { <<>>, <<" ">>, <<"\t">>, <<" ", "\t">>, <<"\t", " ", " ">> }

\* C7: process_command on a text that is empty after trimming emits
\* command_failed("Empty command") within the call, does not classify the
\* text (it is not "unknown"), creates no worker and leaves active_workers
\* as it was; '' and whitespace-only texts are all taken as empty.
C7_EmptyRejectedAtOnce ==
    /\ [][ (Submitted /\ Strip(subs'[Len(subs')].text) = <<>>) =>
             /\ emitted' = Append(emitted,
                    [chan |-> "failed", msg |-> Msg("Empty command", <<>>),
                     sub |-> Len(subs'), late |-> FALSE])
             /\ subs'[Len(subs')].route = "empty"
             /\ subs'[Len(subs')].cmd_type # "unknown"
             /\ subs'[Len(subs')].worker = 0
             /\ workers' = workers
             /\ active_workers' = active_workers ]_vars
    /\ [](\A t \in BlankTexts : Classify(t).route = "empty")

\* A whitespace-only text has been rejected while the worker of an earlier
\* command was still in active_workers.
C7_Witness ==
    /\ Len(subs) = 2
    /\ subs[1].route = "spawn"
    /\ subs[2].text = <<" ", "\t">>
    /\ subs[2].route = "empty"
    /\ active_workers = <<1>>
    /\ \E i \in 1..Len(emitted) : emitted[i].sub = 2 /\ emitted[i].chan = "failed"

\* C8: process_command on a text that is not empty and matches no pattern
\* emits command_failed with the unknown-command message (and the
\* suggestions) within the call, creates no worker and leaves
\* active_workers as it was; no worker ever runs for such a text, so a
\* suggestion is not executed.
C8_UnknownRejectedAtOnce ==
    /\ [][ (Submitted /\ Strip(subs'[Len(subs')].text) # <<>>
                      /\ Matching(Normalize(subs'[Len(subs')].text)) = {}) =>
             /\ Len(emitted') = Len(emitted) + 1
             /\ emitted'[Len(emitted')].chan = "failed"
             /\ emitted'[Len(emitted')].sub = Len(subs')
             /\ emitted'[Len(emitted')].msg.kind \in
                   { "Unknown command '{}'. Did you mean:",
                     "Unknown command '{}'. Type 'help' for available commands." }
             /\ emitted'[Len(emitted')].msg.arg = Normalize(subs'[Len(subs')].text)
             /\ emitted'[Len(emitted')].msg.items =
                   GetCommandSuggestions(Normalize(subs'[Len(subs')].text))
             /\ subs'[Len(subs')].worker = 0
             /\ workers' = workers
             /\ active_workers' = active_workers
             /\ fs' = fs /\ spawned' = spawned /\ killed' = killed ]_vars
    /\ [][ \A w \in (Len(workers) + 1)..Len(workers') :
             Matching(Normalize(subs'[workers'[w].sub].text)) # {} ]_vars

\* An unknown text that has a suggestion has been rejected while the worker
\* of an earlier command was still in active_workers.
C8_Witness ==
    /\ Len(subs) = 2
    /\ subs[1].route = "spawn"
    /\ subs[2].text = <<"opn", " ", "firefox">>
    /\ active_workers = <<1>>
    /\ Len(workers) = 1
    /\ \E i \in 1..Len(emitted) :
          /\ emitted[i].sub = 2
          /\ emitted[i].chan = "failed"
          /\ emitted[i].msg.items = << <<"open", " ", "<application>">> >>

\* C9: when cleanup() returns, active_workers is empty.
C9_EmptyAfterCleanup ==
    [][ (pc = "cleanup" /\ pc' = "idle") => active_workers' = <<>> ]_vars

\* cleanup() has returned after meeting two outstanding workers, one that
\* had finished and was not yet removed, one whose terminate() raised and
\* which is still running.
C9_Witness ==
    /\ pc = "idle"
    /\ active_workers = <<>>
    /\ Len(workers) = 2
    /\ \A w \in 1..2 : workers[w].cut /\ subs[workers[w].sub].cleaned
    /\ \E w \in 1..2 : workers[w].state = "finished"
    /\ \E w \in 1..2 :
          /\ workers[w].state = "running"
          /\ ~workers[w].deleted
          /\ \A i \in 1..Len(events) : events[i].w # w

\* C10: no command_completed or command_failed is emitted for a submission
\* after a cleanup() called after that submission has returned.
C10_NoSignalAfterCleanup ==
    \A i \in 1..Len(emitted) : ~emitted[i].late

\* The positions of call c among the calls cleanup() made on worker w.
CallsAt(w, c) == { i \in 1..Len(workers[w].calls) : workers[w].calls[i] = c }

\* C11: cleanup() first requests cooperative cancellation of a worker, then
\* waits the grace period, and force-terminates only after that wait: every
\* terminate() on a worker comes after a wait, which comes after a
\* cancellation request.
C11_CancelWaitThenTerminate ==
    \A w \in 1..Len(workers) :
        \A t \in CallsAt(w, "terminate") :
            \E r \in CallsAt(w, "requestInterruption"), g \in CallsAt(w, "wait(1000)") :
                r < g /\ g < t

\* The step leaves the disk, the subprocesses and the processes alone.
WorldSame ==
    fs' = fs /\ spawned' = spawned /\ killed' = killed /\ procs' = procs

\* C12: process_command on a recognized command returns once the worker is
\* started: within the call no handler runs (nothing in the world changes,
\* the new worker has not executed anything) and no signal is emitted or
\* queued; a command_completed is emitted only for a submission whose
\* worker has run.
C12_HandlerNotInCaller ==
    /\ [][ (Submitted /\ subs'[Len(subs')].route = "spawn") =>
             /\ WorldSame
             /\ emitted' = emitted
             /\ events' = events
             /\ Len(workers') = Len(workers) + 1
             /\ subs'[Len(subs')].worker = Len(workers')
             /\ workers'[Len(workers')].state = "running"
             /\ workers'[Len(workers')].runs = 0
             /\ \A w \in 1..Len(workers) : workers'[w] = workers[w] ]_vars
    /\ [](\A i \in 1..Len(emitted) :
             emitted[i].chan = "completed" =>
                /\ subs[emitted[i].sub].worker # 0
                /\ workers[subs[emitted[i].sub].worker].runs >= 1)

\* process_command('open firefox') has returned and its worker has not yet
\* run: nothing is launched, nothing is emitted.
C12_Witness ==
    /\ Len(subs) = 1
    /\ subs[1].text = <<"open", " ", "firefox">>
    /\ subs[1].worker = 1
    /\ workers[1].state = "running"
    /\ workers[1].runs = 0
    /\ spawned = {}
    /\ emitted = <<>>
    /\ pc = "idle"

\* The messages that carry the description of a fault (str(e)).
FaultDescriptionKinds ==
    { "Failed to open {}: {e}", "Failed to close {}: {e}", "Failed to execute {}: {e}",
      "Failed to control volume: {e}", "Failed to open file: {e}",
      "Failed to create file: {e}", "Failed to delete file: {e}",
      "Failed to search files: {e}", "Failed to perform web search: {e}",
      "Failed to open website: {e}",
      "Error getting time: {e}", "Error getting date: {e}",
      "Error getting CPU usage: {e}", "Error getting memory usage: {e}",
      "Error getting disk usage: {e}", "Error getting system info: {e}",
      "Error executing command: {e}" }

\* Worker w runs its handler in this step.
Runs(w) == workers[w].state = "running" /\ workers'[w].runs = workers[w].runs + 1

\* An external operation that the handler of wk reaches raises in this step:
\* the operations are set to raise and that changes what the handler does.
FaultRaised(w) ==
    /\ workers'[w].faulted
    /\ ExecuteCommand(workers[w].cmd_type, workers[w].params, TRUE)
          # ExecuteCommand(workers[w].cmd_type, workers[w].params, FALSE)

\* C13: no exception of a handler leaves execute_command: whenever a worker
\* runs, run() ends normally with one result signal and the processor goes
\* on, and when an operation of the handler raised, the message of that
\* signal carries the description of the fault.
C13_FaultsReturnedWithDescription ==
    [][ \A w \in 1..Len(workers) :
          Runs(w) =>
             /\ workers'[w].state = "emitted"
             /\ Len(events') = Len(events) + 1
             /\ events'[Len(events')].type = "result"
             /\ events'[Len(events')].w = w
             /\ pc' = pc
             /\ FaultRaised(w) =>
                   events'[Len(events')].msg.kind \in FaultDescriptionKinds ]_vars

\* The workers created for submission s.
WorkersOf(s) == { w \in 1..Len(workers) : workers[w].sub = s }

\* The worker's run() has reached its outcome.
Terminal(wk) == wk.state \in {"emitted", "finished", "terminated"}

\* C14: a process_command call for a recognized command creates exactly one
\* CommandWorker (any other call none), a worker calls execute_command at
\* most once, and once it has reached its outcome it never calls it again.
C14_NoAutomaticRetry ==
    /\ [](\A s \in 1..Len(subs) :
             Cardinality(WorkersOf(s)) = IF subs[s].route = "spawn" THEN 1 ELSE 0)
    /\ [](\A w \in 1..Len(workers) : workers[w].runs <= 1)
    /\ [][ \A w \in 1..Len(workers) :
             Terminal(workers[w]) =>
                workers'[w].runs = workers[w].runs /\ Terminal(workers'[w]) ]_vars

\* A command whose handler failed has been answered and its thread has
\* ended: it has run once and nothing is left to run.
C14_Witness ==
    /\ Len(subs) = 1
    /\ WorkersOf(1) = {1}
    /\ workers[1].state = "finished"
    /\ workers[1].runs = 1
    /\ workers[1].faulted
    /\ \E i \in 1..Len(emitted) :
          emitted[i].sub = 1 /\ emitted[i].msg.kind = "Error getting time: {e}"
    /\ events = <<>>

\* The worker of the submission that emission i answers.
WorkerOf(i) == workers[subs[emitted[i].sub].worker]

\* The text is a bare URL: one word that starts with http:// or https://
\* and goes on after it.
IsBareUrl(text) ==
    /\ Len(Strip(text)) = 1
    /\ AfterScheme(LowerAtom(Strip(text)[1])) \notin {"none", ""}

\* C15: a bare URL is classified as open_url, and once its worker has run
\* (no operation raising) xdg-open has been started with that URL (as
\* typed, or in lower case) and the result says that it is being opened.
C15_BareUrlOpened ==
    /\ \A s \in 1..Len(subs) : IsBareUrl(subs[s].text) => subs[s].cmd_type = "open_url"
    /\ \A i \in 1..Len(emitted) :
          LET text == subs[emitted[i].sub].text IN
          (IsBareUrl(text) /\ ~WorkerOf(i).faulted) =>
              /\ emitted[i].msg.kind = "Opening website: {}"
              /\ \/ Proc("xdg-open", Strip(text)) \in spawned
                 \/ Proc("xdg-open", Normalize(text)) \in spawned

\* The four volume commands: the amixer call and the message of each.
VolumeCommands ==
    { [text |-> <<"volume", " ", "up">>,
       prog |-> "amixer sset Master 5%+", done |-> "Volume increased"],
      [text |-> <<"volume", " ", "down">>,
       prog |-> "amixer sset Master 5%-", done |-> "Volume decreased"],
      [text |-> <<"volume", " ", "mute">>,
       prog |-> "amixer sset Master mute", done |-> "Volume muted"],
      [text |-> <<"volume", " ", "unmute">>,
       prog |-> "amixer sset Master unmute", done |-> "Volume unmuted"] }

\* C16: each volume command, submitted through process_command, makes its
\* own amixer call and is answered by the message that names its action.
C16_VolumeCommandsDoTheirAction ==
    \A i \in 1..Len(emitted) :
        \A v \in VolumeCommands :
            (Normalize(subs[emitted[i].sub].text) = v.text /\ ~WorkerOf(i).faulted) =>
                /\ emitted[i].msg.kind = v.done
                /\ spawned = {Proc(v.prog, <<>>)}

\* commands.confirm_dangerous is set, and set to false.
GateOff ==
    /\ ConfigWalk(config, <<"commands", "confirm_dangerous">>).found
    /\ ~Truthy(ConfigWalk(config, <<"commands", "confirm_dangerous">>).value)

\* C18: with commands.confirm_dangerous false, 'shutdown', 'restart',
\* 'reboot' and 'delete file' of an existing path are never answered by a
\* confirmation message, and unless the operation itself raises the
\* subprocess has been run (shutdown now, reboot) or the file is gone.
C18_GateOffProceeds ==
    GateOff =>
      \A i \in 1..Len(emitted) :
        LET text == subs[emitted[i].sub].text
            kind == emitted[i].msg.kind
            ok   == ~WorkerOf(i).faulted
        IN  /\ IsShutdownText(text) =>
                  /\ kind # "Shutdown command requires confirmation in settings"
                  /\ ok => /\ kind = "Shutting down system..."
                           /\ Proc("shutdown now", <<>>) \in spawned
            /\ Normalize(text) \in {<<"restart">>, <<"reboot">>} =>
                  /\ kind # "Restart command requires confirmation in settings"
                  /\ ok => /\ kind = "Restarting system..."
                           /\ Proc("reboot", <<>>) \in spawned
            /\ (IsDeleteOfPath(text) /\ DeletePath(text) \in inputs.disk) =>
                  /\ kind # "File deletion requires confirmation in settings"
                  /\ ok => /\ kind = "Deleted file: {}"
                           /\ emitted[i].msg.arg = DeletePath(text)
                           /\ DeletePath(text) \notin fs

\* The gate is off and 'delete file ~/notes.txt' has removed the file.
C18_Witness ==
    /\ GateOff
    /\ <<"/home/user/notes.txt">> \in inputs.disk
    /\ <<"/home/user/notes.txt">> \notin fs
    /\ \E i \in 1..Len(emitted) :
          /\ subs[emitted[i].sub].text = <<"delete", " ", "file", " ", "~/notes.txt">>
          /\ emitted[i].msg.kind = "Deleted file: {}"

\* The first words of the misspelling table of _get_command_suggestions.
MisspellingTable ==
    { <<"opn">>, <<"ope">>, <<"cls">>, <<"cloe">>, <<"shut">>, <<"shutdwn">>,
      <<"rest">>, <<"restrt">>, <<"serch">>, <<"serh">>, <<"tim">>, <<"dat">> }

\* C19: _get_command_suggestions returns at most 3 suggestions, and none
\* when the first word of the text is not in the misspelling table; the
\* unknown-command message lists exactly what it returned.
C19_SuggestionsBounded ==
    /\ \A s \in 1..Len(subs) :
          LET t == Normalize(subs[s].text) IN
          /\ Len(GetCommandSuggestions(t)) <= 3
          /\ (Split(t) = <<>> \/ Split(t)[1] \notin MisspellingTable)
                => GetCommandSuggestions(t) = <<>>
    /\ \A i \in 1..Len(emitted) :
          subs[emitted[i].sub].route = "unknown" =>
              emitted[i].msg.items =
                  GetCommandSuggestions(Normalize(subs[emitted[i].sub].text))

\* An unknown text without a table hit has been answered with no suggestion.
C19_Witness ==
    \E i \in 1..Len(emitted) :
        /\ subs[emitted[i].sub].text = <<"frobnicate">>
        /\ subs[emitted[i].sub].route = "unknown"
        /\ emitted[i].msg.items = <<>>
        /\ emitted[i].msg.kind = "Unknown command '{}'. Type 'help' for available commands."

\* The groups captured by the pattern that classified submission s.
DecidingGroups(s) == PatternMatch(subs[s].cmd_type, Normalize(subs[s].text)).groups

C17_CreateNeverOverwrites ==
    /\ \A w \in 1..Len(workers) : ~workers[w].overwrote
    /\ \A i, j \in 1..Len(emitted) :
          ( /\ emitted[i].msg.kind = "Created file: {}"
            /\ emitted[j].msg.kind = "Created file: {}"
            /\ emitted[i].msg.arg = emitted[j].msg.arg ) => i = j


\* C21: classification is deterministic and pure.  Whatever was processed
\* in between, the classification recorded for a submission is the one
\* _parse_command gives for its normalized text in the present state, so two
\* submissions of one normalized text were classified alike; and a
\* process_command that ends at the classifier (an unknown text) leaves
\* active_workers, the workers and the world as they were.
Classified(s) ==
    IF subs[s].route = "spawn"
    THEN [cmd_type |-> subs[s].cmd_type, params |-> subs[s].params]
    ELSE [cmd_type |-> "unknown", params |-> <<>>]

OpenAppName(w) == Strip(Lower(FirstParam(workers[w].params)))

Launched == { p \in spawned : p.prog = "Popen" }

Probed == { p \in spawned : p.prog = "which" }

C22_OpenAppResolutionOrder ==
    \A w \in 1..Len(workers) :
        (/\ workers[w].cmd_type = "open_app"
         /\ workers[w].runs = 1
         /\ ~workers[w].faulted
         /\ OpenAppName(w) # <<>>)
        => LET app == OpenAppName(w) IN
           /\ InAppCommands(app)
                 => Probed = {} /\ Launched = {Proc("Popen", AppCommand(app))}
           /\ (~InAppCommands(app) /\ app \in OnPath)
                 => Probed = {Proc("which", app)} /\ Launched = {Proc("Popen", app)}
           /\ (~InAppCommands(app) /\ app \notin OnPath)
                 => /\ Probed = {Proc("which", app)}
                    /\ Launched = {}
                    /\ \A e \in 1..Len(events) :
                          (events[e].type = "result" /\ events[e].w = w) =>
                             /\ events[e].msg.kind =
                                   "Application '{}' not found. Available apps: {}"
                             /\ Len(events[e].msg.items) <= 10
                             /\ \A i \in 1..Len(events[e].msg.items) :
                                   InAppCommands(events[e].msg.items[i])

\* 'open nothing' has run: neither an alias nor on the path, probed, not
\* launched, and answered with the 10 first aliases.
C22_Witness ==
    /\ Len(workers) = 1
    /\ workers[1].cmd_type = "open_app"
    /\ ~workers[1].faulted
    /\ OpenAppName(1) = <<"nothing">>
    /\ spawned = {Proc("which", <<"nothing">>)}
    /\ Len(events) = 1
    /\ events[1].type = "result"
    /\ Len(events[1].msg.items) = 10


\* C23: commands submitted back-to-back run as independent workers.  A
\* worker that has not left its handler can always take its step (run its
\* handler to the end and emit), a worker that has emitted can always end,
\* and a queued result can always be delivered, whatever the other workers
\* are doing: no worker waits for another, so results are delivered in the
\* order the workers finish, not in the order of submission.
C23_WorkersIndependent ==
    /\ \A w \in 1..Len(workers) :
          /\ workers[w].state = "running" => ENABLED WorkerRun(w, FALSE)
          /\ workers[w].state = "emitted" => ENABLED WorkerFinish(w)
    /\ events # <<>> => ENABLED Dispatch

\* The command submitted second has delivered its result while the worker
\* of the one submitted first is still in its handler.
C23_Witness ==
    /\ Len(workers) = 2
    /\ workers[1].sub = 1 /\ workers[2].sub = 2
    /\ workers[1].state = "running"
    /\ workers[2].state = "finished"
    /\ Len(emitted) = 1
    /\ emitted[1].chan = "completed" /\ emitted[1].sub = 2


\* The direct call of this run has returned msg-kind kind.
Returned(kind) ==
    /\ Len(emitted) = 1
    /\ emitted[1].chan = "returned"
    /\ emitted[1].msg.kind = kind

\* The target process name of the direct call close_app.
CloseTarget == ProcessName(Strip(Lower(FirstParam(inputs.call.params))))

\* The processes running at the start whose name contains the target, in
\* enumeration order, and those of them whose terminate() does not raise.
Named == SelectSeq(InitialProcs, LAMBDA p : NameContains(p, CloseTarget))

Terminable == SelectSeq(Named, LAMBDA p : p \notin inputs.denied)

\* The direct call close_app has returned from its loop (no name missing,
\* no failure outside the loop).
CloseReturned ==
    /\ inputs.call.cmd_type = "close_app"
    /\ Returned("Closed {}") \/ Returned("Application '{}' is not running")

\* C24 as stated: at most one process is terminated, it is the first
\* running process whose name contains the target whenever there is one, and
\* when none matches nothing is terminated and the result is 'not running'.
C24_AsStated ==
    CloseReturned =>
        /\ Len(killed) <= 1
        /\ Named # <<>> => killed = <<Named[1]>> /\ Returned("Closed {}")
        /\ Named = <<>> => killed = <<>> /\ Returned("Application '{}' is not running")

\* C24 as amended: at most one process is terminated per command, the
\* first process in enumeration order whose name contains the target and
\* whose terminate() does not raise NoSuchProcess or AccessDenied (a process
\* that raises is skipped and the loop goes on); when no process matches, or
\* every matching process raises, nothing is terminated and the result is
\* 'not running'.  The process table loses exactly the terminated process.
C24_AtMostOneTerminated ==
    CloseReturned =>
        /\ Len(killed) <= 1
        /\ Terminable # <<>> =>
              /\ killed = <<Terminable[1]>>
              /\ Returned("Closed {}")
              /\ procs = Remove(InitialProcs, Terminable[1])
        /\ Terminable = <<>> =>
              /\ killed = <<>>
              /\ Returned("Application '{}' is not running")
              /\ procs = InitialProcs

\* 'close firefox' with two matching processes, none denied: the first one
\* is terminated, the second one runs on.
C24_Witness ==
    /\ CloseReturned
    /\ inputs.denied = {}
    /\ Len(Named) = 2
    /\ killed = <<Named[1]>>
    /\ In(Named[2], procs)


\* The pattern of the direct call search_files and the files of the disk
\* that match it.
SearchPattern == StripQuotes(Strip(FirstParam(inputs.call.params)))

MatchingFiles == { p \in inputs.disk : GlobMatches(p, SearchPattern) }

\* C25: file search returns at most 10 hits.  Whatever the number of
\* matching files under the home directory, the result of
\* _handle_search_files lists no more than 10 paths (10 when more than 10
\* match, all of them otherwise), each a matching file listed once, and the
\* count in its first line is the number of paths listed.
C25_SearchAtMostTen ==
    (inputs.call.cmd_type = "search_files" /\ Returned("Found {} files:")) =>
        LET listed == emitted[1].msg.items IN
        /\ Len(listed) <= 10
        /\ Len(listed) = IF Cardinality(MatchingFiles) > 10 THEN 10
                          ELSE Cardinality(MatchingFiles)
        /\ \A i \in 1..Len(listed) : listed[i] \in MatchingFiles
        /\ \A i, j \in 1..Len(listed) : listed[i] = listed[j] => i = j
        /\ emitted[1].msg.arg = <<NumText(Len(listed))>>

\* 13 files match 'txt': 10 paths are listed and the count says 10.
C25_Witness ==
    /\ inputs.call.cmd_type = "search_files"
    /\ Returned("Found {} files:")
    /\ Cardinality(MatchingFiles) = 13
    /\ Len(emitted[1].msg.items) = 10
    /\ emitted[1].msg.arg = <<"10">>

\* Starts with the string http:// or https:// (the words of the model).
HasHttpScheme(url) ==
    /\ url # <<>>
    /\ url[1] \in {"http://", "https://", "http://example.com", "https://example.com"}

\* The URL given to the direct call open_website, blanks around it removed.
GivenUrl == Strip(FirstParam(inputs.call.params))

FinishedHandled(w) ==
    /\ workers[w].state = "finished"
    /\ \A e \in 1..Len(events) : ~(events[e].type = "finished" /\ events[e].w = w)

\* C27: live-set bookkeeping without cleanup().  active_workers holds
\* exactly the workers created whose finished notification has not been
\* handled yet, each once; a worker is in the list from its creation,
\* before it has run anything; it leaves the list in the step that handles
\* its finished notification and never comes back; and every worker whose
\* thread has ended is removed in the end.
C27_LiveSetBookkeeping ==
    /\ [](/\ \A w \in 1..Len(workers) : In(w, active_workers) <=> ~FinishedHandled(w)
          /\ \A i \in 1..Len(active_workers) : active_workers[i] \in 1..Len(workers)
          /\ \A i, j \in 1..Len(active_workers) :
                active_workers[i] = active_workers[j] => i = j)
    /\ [][/\ \A w \in (Len(workers) + 1)..Len(workers') :
                In(w, active_workers') /\ workers'[w].runs = 0
          /\ \A w \in 1..Len(workers) :
                /\ ~In(w, active_workers) => ~In(w, active_workers')
                /\ (In(w, active_workers) /\ ~In(w, active_workers'))
                      => /\ events # <<>>
                         /\ Head(events) = Event("finished", w, NoMsg)
                         /\ events' = Tail(events)
                         /\ Len(active_workers') = Len(active_workers) - 1]_vars
    /\ \A w \in 1..MaxCommands :
          (w <= Len(workers) /\ workers[w].state = "finished")
              ~> (w <= Len(workers) /\ ~In(w, active_workers))

\* Two workers: the first one has finished and was removed, the second one
\* has emitted its result and is still in the list.
C27_Witness ==
    /\ Len(workers) = 2
    /\ FinishedHandled(1)
    /\ workers[2].state = "emitted"
    /\ active_workers = <<2>>


\* C28: every insert into and remove from active_workers happens under
\* mutual exclusion, whichever thread a submission comes from: no worker is
\* appended to the list while the main thread is inside cleanup(), between
\* the copy of the list and its clear(), and cleanup() returns with no
\* live worker left behind untouched.
C28_ListOperationsExclusive ==
    /\ [][Len(active_workers') > Len(active_workers) => pc = "idle"]_vars
    /\ [][(pc = "cleanup" /\ pc' = "idle") =>
             \A w \in 1..Len(workers) :
                 workers[w].state \in {"running", "emitted"} => workers[w].cut]_vars


\* The intents whose pattern is registered after a more general one.
Shadowed ==
    {"open_file", "open_website", "web_search",
     "volume_up", "volume_down", "volume_mute", "volume_unmute"}

\* Every shadowed pattern that matches s comes after another pattern that
\* matches s.
EarlierMatches(s) ==
    \A i \in Matching(s) :
        PatternOrder[i] \in Shadowed => \E j \in Matching(s) : j < i

\* C29 as stated: for every text the classifier returns none of the
\* shadowed intents, every text that matches one of their patterns matching
\* an earlier pattern too.
C29_AsStated ==
    \A s \in 1..Len(subs) :
        /\ subs[s].cmd_type \notin Shadowed
        /\ EarlierMatches(Normalize(subs[s].text))

\* C29 as amended: web_search and volume_up/down/mute/unmute are returned
\* for no text.  open_file and open_website are returned only for a text
\* that holds a line break (in the whitespace after 'file' / 'website',
\* which the capture of the open_app pattern cannot cross), with the rest of
\* the text as params; for a text without a line break every text that
\* matches a shadowed pattern matches an earlier one and none of the
\* shadowed intents is returned.
C29_ShadowedUnlessLineBreak ==
    \A s \in 1..Len(subs) :
        LET text == Normalize(subs[s].text) IN
        /\ subs[s].cmd_type \notin Shadowed \ {"open_file", "open_website"}
        /\ NoBreak(text) => subs[s].cmd_type \notin Shadowed /\ EarlierMatches(text)
        /\ subs[s].cmd_type \in {"open_file", "open_website"} =>
              /\ Len(text) >= 5
              /\ text[1] = "open" /\ IsSpace(text[2])
              /\ ~PatternMatch("open_app", text).matched
              /\ \E i \in 4..(Len(text) - 1) :
                    /\ text[i] = "\n"
                    /\ text[i - 1] \in {"file", "website", " ", "\t", "\n"}
                    /\ subs[s].params = << SubSeq(text, i + 1, Len(text)) >>

\* 'open file', a line break, '/tmp/x' has been classified as open_file.
C29_Witness ==
    /\ Len(subs) = 1
    /\ subs[1].text = <<"open", " ", "file", "\n", "/tmp/x">>
    /\ subs[1].cmd_type = "open_file"
    /\ subs[1].params = << <<"/tmp/x">> >>


\* The configuration holds no value under commands.confirm_dangerous: the
\* section or the key is missing.
ConfirmKeyAbsent ==
    ~(/\ config.isdict
      /\ "commands" \in DOMAIN config.items
      /\ config.items["commands"].isdict
      /\ "confirm_dangerous" \in DOMAIN config.items["commands"].items)

\* C30: under the default configuration, and whenever the key
\* commands.confirm_dangerous is absent from the configuration, the gate is
\* on: the step in which a worker executes shutdown, restart, reboot or
\* delete file starts no subprocess, removes no file and terminates no
\* process, and its result is no report of an action done.
C30_GateOnByDefault ==
    [][ \A w \in 1..Len(workers) :
          ( /\ config = DefaultConfig \/ ConfirmKeyAbsent
            /\ Dangerous(workers[w])
            /\ workers[w].state = "running"
            /\ workers'[w].state = "emitted" )
          => /\ WorldSame
             /\ \A e \in (Len(events) + 1)..Len(events') :
                   events'[e].msg.kind \notin
                      {"Shutting down system...", "Restarting system...",
                       "Deleted file: {}"} ]_vars

\* A configuration without the key, under which 'reboot' has been executed
\* and has started nothing.
C30_Witness ==
    /\ ConfirmKeyAbsent
    /\ Len(workers) = 1
    /\ workers[1].cmd_type = "system_control"
    /\ FirstParam(workers[1].params) = <<"reboot">>
    /\ workers[1].state = "emitted"
    /\ ~workers[1].faulted
    /\ spawned = {}
    /\ Len(events) = 1
    /\ events[1].msg.kind = "Restart command requires confirmation in settings"


\* The answers of the gate.
GateAnswers ==
    { "Shutdown command requires confirmation in settings",
      "Restart command requires confirmation in settings",
      "File deletion requires confirmation in settings" }

\* C31: the confirmation gate covers only shutdown, restart/reboot and file
\* deletion.  Under every configuration of the flag (true, false, missing)
\* 'lock' and 'logout' run their subprocess and report it unless the
\* subprocess call raises, and the step in which a worker executes any
\* command other than shutdown, restart, reboot and delete file never
\* answers with a confirmation message.
C31_GateOnlyOnDangerous ==
    /\ [][ \A w \in 1..Len(workers) :
             ( /\ ~Dangerous(workers[w])
               /\ workers[w].state = "running"
               /\ workers'[w].state = "emitted" )
             => \A e \in (Len(events) + 1)..Len(events') :
                   events'[e].msg.kind \notin GateAnswers ]_vars
    /\ [](\A w \in 1..Len(workers) :
            ( /\ workers[w].cmd_type = "system_control"
              /\ workers[w].runs = 1
              /\ ~workers[w].faulted )
            => /\ FirstParam(workers[w].params) = <<"lock">>
                    => spawned = {Proc("gnome-screensaver-command -l", <<>>)}
               /\ FirstParam(workers[w].params) = <<"logout">>
                    => spawned = {Proc("gnome-session-quit --logout", <<>>)})

\* The gate is on and 'lock' has run its subprocess and reported it.
C31_Witness ==
    /\ ConfirmDangerous
    /\ Len(workers) = 1
    /\ workers[1].cmd_type = "system_control"
    /\ FirstParam(workers[1].params) = <<"lock">>
    /\ spawned = {Proc("gnome-screensaver-command -l", <<>>)}
    /\ Len(events) = 1
    /\ events[1].msg.kind = "Screen locked"


\* C32: _get_command_suggestions returns at most one suggestion.  For
\* every first word of the misspelling table, alone or followed by more
\* words, it returns exactly one; for every text submitted it returns at
\* most one, and an unknown-command message lists at most one, so the cap
\* of 3 never cuts anything.
C32_AtMostOneSuggestion ==
    /\ subs = <<>> =>
          \A fw \in MisspellingTable :
              /\ Len(GetCommandSuggestions(fw)) = 1
              /\ Len(GetCommandSuggestions(fw \o <<" ", "opn", "\t", "tim">>)) = 1
              /\ Len(SuggestionFor(fw)) = 1
    /\ \A s \in 1..Len(subs) :
          Len(GetCommandSuggestions(Normalize(subs[s].text))) <= 1
    /\ \A i \in 1..Len(emitted) :
          subs[emitted[i].sub].route = "unknown" => Len(emitted[i].msg.items) <= 1

\* 'opn firefox' has been answered with its one suggestion.
C32_Witness ==
    \E i \in 1..Len(emitted) :
        /\ subs[emitted[i].sub].text = <<"opn", " ", "firefox">>
        /\ emitted[i].chan = "failed"
        /\ emitted[i].msg.items = << <<"open", " ", "<application>">> >>


\* C33: cleanup() does not stop the processor.  Every process_command of a
\* recognized command, also one made after a cleanup() has returned,
\* creates a worker in its running state and appends it to active_workers,
\* so the list can be non-empty again after a completed cleanup.
C33_SubmitAfterCleanup ==
    [][ (Len(subs') = Len(subs) + 1 /\ subs'[Len(subs')].route = "spawn")
          => /\ Len(workers') = Len(workers) + 1
             /\ subs'[Len(subs')].worker = Len(workers')
             /\ workers'[Len(workers')].state = "running"
             /\ workers'[Len(workers')].sub = Len(subs')
             /\ ~workers'[Len(workers')].cut
             /\ active_workers' = Append(active_workers, Len(workers'))
             /\ emitted' = emitted ]_vars

\* A cleanup() has returned after the first submission, which it emptied
\* the list of, and the second submission has put its worker into the list.
C33_Witness ==
    /\ Len(subs) = 2
    /\ subs[1].cleaned /\ ~subs[2].cleaned
    /\ subs[1].route = "spawn" /\ subs[2].route = "spawn"
    /\ pc = "idle"
    /\ active_workers = <<2>>
    /\ workers[2].state = "running"


\* What result_display shows when _execute_command finds no processor.
Unavailable == "Error: Command processor not available. Please reopen the dialog."

\* C34 as stated: once a closeEvent of the dialog has run, every
\* _execute_command on it shows that the processor is unavailable and
\* submits nothing.  (Refuted: with nothing but blanks in the input the
\* dialog shows "Please enter a command." instead.)
C34_AsStated ==
    [][dialog.closed =>
         \A text \in DialogTexts, by \in Triggers :
             DialogExecute(text, by) =>
                 /\ dialog'.display = Unavailable
                 /\ Len(subs') = Len(subs)]_vars

\* C34 (amended): once a closeEvent of the dialog has run, its
\* command_processor is None for good; no step submits a command or creates
\* a worker any more, and every later _execute_command on the dialog, which
\* the tray icon shows again, reports that the processor is unavailable
\* when a command was entered and "Please enter a command." when the input
\* is blank.
C34_ClosedDialogSubmitsNothing ==
    [][dialog.closed =>
         /\ ~dialog.processor /\ ~dialog'.processor /\ dialog'.closed
         /\ Len(subs') = Len(subs)
         /\ Len(workers') = Len(workers)
         /\ \A text \in DialogTexts, by \in Triggers :
                DialogExecute(text, by) =>
                    dialog'.display = IF Strip(text) = <<>> THEN "Please enter a command."
                                      ELSE Unavailable]_vars

\* A closed dialog, shown again, has answered a command with the notice
\* that its processor is unavailable, with a submission still to come.
C34_Witness ==
    /\ dialog.closed
    /\ dialog.visible
    /\ dialog.display = Unavailable
    /\ inputs.left > 0


\* The commands of the dialog in flight: the submissions that neither
\* command_completed nor command_failed has answered yet.
InFlight == { s \in 1..Len(subs) : CountFor(s, emitted) = 0 }

\* C35: the text dialog serializes its submissions: at most one command of
\* the dialog is in flight at any time, and while its Execute button is
\* enabled none is.
C35_DialogSerializes ==
    /\ Cardinality(InFlight) <= 1
    /\ dialog.created /\ dialog.enabled => InFlight = {}


\* The listening threads that are alive.
Alive == { t \in 1..Len(voice.threads) : voice.threads[t].at # "done" }

\* C36: at most one listening thread is alive at any time, and is_listening
\* is true exactly while the thread of the current session runs.
C36_OneListeningThread ==
    /\ Cardinality(Alive) <= 1
    /\ voice.is_listening <=>
           \E t \in Alive : voice.threads[t].session = voice.sessions

\* The places of the signals named name in the log of emitted signals.
Places(name) == { i \in 1..Len(voice.signals) : voice.signals[i].name = name }

\* The listening_stopped between place i and the next listening_started
\* after it (or the end of the log).
StopsAfter(i) ==
    { j \in Places("listening_stopped") :
        /\ j > i
        /\ \A k \in Places("listening_started") : k > i => j < k }

\* C37: between a listening_started and the next one there is exactly one
\* listening_stopped (never two, and never none once the next session has
\* started), and a session that stop_listening has ended emits neither
\* command_recognized nor recognition_failed afterwards.
C37_OneStopPerStart ==
    /\ \A i \in Places("listening_started") :
          /\ Cardinality(StopsAfter(i)) <= 1
          /\ (\E k \in Places("listening_started") : k > i) => StopsAfter(i) # {}
    /\ \A i \in Places("command_recognized") \cup Places("recognition_failed") :
          ~voice.signals[i].after_stop


\* p is a leading part of q.
IsPrefix(p, q) == Len(p) <= Len(q) /\ SubSeq(q, 1, Len(p)) = p

\* The paths of a configuration value: the key sequences that lead to a
\* value inside it.
RECURSIVE PathsOf(_)
PathsOf(value) ==
    IF ~value.isdict THEN {<<>>}
    ELSE {<<>>} \cup UNION { { <<k>> \o p : p \in PathsOf(value.items[k]) } :
                              k \in DOMAIN value.items }

\* An intermediate key of the path held a value that is no dict.
NonDictOnWay(cfg, keys) ==
    \E n \in 1..(Len(keys) - 1) :
        /\ ConfigWalk(cfg, SubSeq(keys, 1, n)).found
        /\ ~ConfigWalk(cfg, SubSeq(keys, 1, n)).value.isdict

\* C38: after set(path, v) has returned True, get(path) returns v and every
\* key outside the path (neither on the way to it nor below it) has the
\* value, or the absence, it had before; a set whose path runs through a
\* value that is no dict returns False, and a set that returns False leaves
\* the configuration as it was; get on a missing path returns the default
\* it was given, get on a path that is there returns the value, and get
\* changes nothing.
C38_SetGetRoundTrip ==
    /\ answer.op = "set" /\ answer.ok =>
          /\ ConfigWalk(config, answer.keys).found
          /\ ConfigGet(answer.keys, Leaf(FALSE)) = answer.value
          /\ \A p \in PathsOf(answer.before) \cup PathsOf(config) :
                ~IsPrefix(p, answer.keys) /\ ~IsPrefix(answer.keys, p) =>
                    ConfigWalk(config, p) = ConfigWalk(answer.before, p)
    /\ answer.op = "set" /\ NonDictOnWay(answer.before, answer.keys) => ~answer.ok
    /\ answer.op = "set" /\ ~answer.ok => config = answer.before
    /\ answer.op = "get" =>
          /\ config = answer.before
          /\ answer.result = IF ConfigWalk(config, answer.keys).found
                             THEN ConfigWalk(config, answer.keys).value
                             ELSE answer.value

\* A set has returned True for a path of three keys whose section was
\* missing, in a configuration that holds other keys.
C38_Witness ==
    /\ answer.op = "set"
    /\ answer.ok
    /\ Len(answer.keys) = 3
    /\ ~ConfigWalk(answer.before, <<answer.keys[1]>>).found
    /\ ConfigWalk(answer.before, <<"commands", "show_feedback">>).found

====
